---- MODULE Spec2Model ----
(***************************************************************************)
(* devkit: the persistent store (snippets.json, history.json, config.json *)
(* under ~/.devkit) and the CLI operations built on it.                    *)
(*                                                                         *)
(* A file on disk is a record [kind, top, ...]:                            *)
(*   kind = "absent"       the path does not exist                         *)
(*          "empty"        zero bytes (what open(path, 'w') leaves)        *)
(*          "partial"      a strict prefix of a JSON document              *)
(*          "garbage"      decodable text that is not JSON                 *)
(*          "undecodable"  bytes the text decoder of open(path, 'r')       *)
(*                         rejects (e.g. 0xFF under UTF-8)                 *)
(*          "json"         a complete JSON document; top is its shape      *)
(* A Python value read from such a file has the same shape as the JSON     *)
(* value (json.load maps object->dict, array->list, string->str, ...).     *)
(***************************************************************************)
EXTENDS Integers, Sequences, FiniteSets, TLC

VARIABLES
    snippetsFile,   \* content of SNIPPETS_FILE
    historyFile,    \* content of HISTORY_FILE
    configFile,     \* content of CONFIG_FILE
    envKey,         \* os.getenv("GEMINI_API_KEY"): "" when unset
    clock,          \* datetime.now(), read by the operations
    calls,          \* number of operations run so far
    last,           \* the last operation: name, arguments, exception, return value, echoes
    pre,            \* the files and the project root as they were when the last operation started
    writer,         \* a save_snippets call in progress in another process: [pc, map]
    disk,           \* what open(path, 'w') and the writes meet: "ok", "denied", "full"
    loggers,        \* the devkit processes inside log_command: [pc, history, entry, ...]
    project         \* the project root: markers, .devkit directory and .gitignore

vars == <<snippetsFile, historyFile, configFile, envKey, clock, calls, last, pre,
          writer, disk, loggers, project>>

----------------------------------------------------------------------------
(* Bounds of the model *)

MaxCalls == 2       \* operations per behaviour
HistoryOver == 1    \* how far a stored history may exceed the cap initially
OutputOver == 1     \* how far an output argument may exceed the cap
MaxCmdLen == 3      \* length of the generated commands given to the classifier
MaxStatsLen == 3    \* length of the histories given to the danger statistics
LogOver == 40       \* how far a log given to truncate_log may exceed max_lines

(* Program constants *)

HistoryCap == 100   \* storage.py:99-100
OutputCap == 1000   \* storage.py:92
MaxLines == 500     \* logs.py:35, the default of max_lines
HeadLines == 100    \* logs.py:43
TailLines == 400    \* logs.py:43

----------------------------------------------------------------------------
(* Python sequence helpers *)

Min(a, b) == IF a < b THEN a ELSE b

\* s[:n] for n >= 0
SliceHead(s, n) == SubSeq(s, 1, Min(n, Len(s)))

\* s[-n:] for n >= 1
SliceTail(s, n) == SubSeq(s, Len(s) - Min(n, Len(s)) + 1, Len(s))

----------------------------------------------------------------------------
(* Files *)

Absent == [kind |-> "absent", top |-> "none"]

\* no save_snippets call is in progress
Idle == [pc |-> "idle", map |-> <<>>]

\* the devkit processes of a behaviour, each running one command
Procs == 1..MaxCalls

\* a process that has not called log_command
IdleLogger == [pc |-> "idle", history |-> <<>>, entry |-> <<>>, reads |-> 0, writes |-> 0,
               loadedAt |-> 0, savedAt |-> 0]

NoLoggers == [p \in Procs |-> IdleLogger]

\* a project root: whether .git and setup.py exist, whether .devkit exists, the
\* content of .devkit/config.json and of .devkit/snippets.json ("absent"
\* when there is no file) and .gitignore: [exists, lines, open], open when the last
\* line has no newline after it
NoIgnore == [exists |-> FALSE, lines |-> <<>>, open |-> FALSE]

\* no .devkit/config.json
NoProjectConfig == [exists |-> FALSE, project_type |-> "", initialized_at |-> 0]

Ignore(lines, open) == [exists |-> TRUE, lines |-> lines, open |-> open]

Project(git, setup, devkit, config, snippets, gitignore) ==
    [git |-> git, setup |-> setup, devkit |-> devkit, config |-> config,
     snippets |-> snippets, gitignore |-> gitignore]

\* a directory with no marker and no .devkit
NoProject == Project(FALSE, FALSE, FALSE, NoProjectConfig, "absent", NoIgnore)

\* a file whose bytes are not a JSON document
Broken(k) == [kind |-> k, top |-> "none"]

\* open(path, 'r') followed by json.load(f): the exception raised, or "none"
json_load(file) ==
    CASE file.kind = "json" -> "none"
      [] file.kind = "undecodable" -> "UnicodeDecodeError"
      [] OTHER -> "JSONDecodeError"

\* json.dump(list, f) into a freshly opened file: the document left on disk
dump_history(items) == [kind |-> "json", top |-> "array", items |-> items]

\* with open(path, 'w') as f: json.dump(obj, f, indent=2), doc being the
\* document json.dump produces and old the file before: [exc, file].  On a
\* path that may not be written open raises and the file stays as it was; on
\* a full disk open has truncated the file when the flush of the buffer raises.
write_json(doc, old) ==
    CASE disk = "denied" -> [exc |-> "PermissionError", file |-> old]
      [] disk = "full" -> [exc |-> "OSError", file |-> Broken("empty")]
      [] OTHER -> [exc |-> "none", file |-> doc]

----------------------------------------------------------------------------
(* History *)

\* what an operation leaves in `last`: its name, the exception that left it
\* ("none" when it returned), what it echoed, the exit code of the process,
\* whether it wrote a document, the time it read, its arguments and its result
Op(op, exc, echo, exit, wrote, now, arg, ret) ==
    [op |-> op, exc |-> exc, echo |-> echo, exit |-> exit, wrote |-> wrote,
     now |-> now, arg |-> arg, ret |-> ret]

NoOp == Op("init", "none", {}, 0, FALSE, 0, <<>>, <<>>)

\* load_history: [exc, top, items]; top is the shape of the value returned
load_history(file) ==
    IF file.kind = "absent"
    THEN [exc |-> "none", top |-> "array", items |-> <<>>]
    ELSE CASE json_load(file) = "none" ->
                [exc |-> "none", top |-> file.top,
                 items |-> IF file.top = "array" THEN file.items ELSE <<>>]
           [] json_load(file) = "JSONDecodeError" ->
                [exc |-> "none", top |-> "array", items |-> <<>>]
           [] OTHER ->
                [exc |-> json_load(file), top |-> "none", items |-> <<>>]

\* mutant: the output is stored whole
NewEntry_FullOutput(now, command, output, exit_code) ==
    [wf |-> TRUE,
     timestamp |-> now,
     command |-> command,
     output |-> output,
     exit_code |-> exit_code]

\* the entry log_command builds
NewEntry(now, command, output, exit_code) ==
    [wf |-> TRUE,
     timestamp |-> now,
     command |-> command,
     output |-> SliceHead(output, OutputCap),
     exit_code |-> exit_code]

\* mutant: the history is never cut
AppendUncapped(history, entry) == Append(history, entry)

\* mutant: history[:100] in place of history[-100:]
AppendKeepOldest(history, entry) ==
    LET h == Append(history, entry)
    IN  IF Len(h) > HistoryCap THEN SliceHead(h, HistoryCap) ELSE h

\* mutant: nothing is appended when the stored config turns the logging off
AppendGoverned(history, entry) ==
    LET off == /\ configFile.kind = "json"
               /\ "time_travel_enabled" \in configFile.keys
               /\ ~configFile.time_travel_enabled
        h == Append(history, entry)
    IN  IF off THEN history
        ELSE IF Len(h) > HistoryCap THEN SliceTail(h, HistoryCap) ELSE h

\* history.append(entry); if len(history) > 100: history = history[-100:]
AppendCapped(history, entry) ==
    LET h == Append(history, entry)
    IN  IF Len(h) > HistoryCap THEN SliceTail(h, HistoryCap) ELSE h

----------------------------------------------------------------------------
(* Inputs of the history specification *)

Chars == <<"a", "b", "c">>

\* an output text of n characters whose characters vary with the position
GenOutput(n) == [i \in 1..n |-> Chars[(i % 3) + 1]]

CmdLs == <<"l", "s">>
CmdRm == <<"r", "m", " ", "x">>
Commands == <<CmdLs, CmdRm>>

\* a stored history of n well-formed entries, oldest first
GenHistory(n) ==
    [i \in 1..n |->
        [wf |-> TRUE,
         timestamp |-> i,
         command |-> Commands[(i % 2) + 1],
         output |-> GenOutput(i % 3),
         exit_code |-> i % 2]]

InitLens == {0, 1, HistoryCap - 1, HistoryCap, HistoryCap + HistoryOver}
OutputLens == {0, OutputCap - 1, OutputCap, OutputCap + OutputOver}
ExitCodes == {0, 1}

EmptySnippets == [kind |-> "json", top |-> "object", map |-> <<>>]

Files == [snippets |-> snippetsFile, history |-> historyFile, config |-> configFile,
          project |-> project]

InitHistory ==
    /\ historyFile \in {Absent, Broken("garbage")}
                        \cup {dump_history(GenHistory(n)) : n \in InitLens}
    /\ snippetsFile = EmptySnippets
    /\ configFile = Absent
    /\ envKey = ""
    /\ clock = HistoryCap + HistoryOver + 1
    /\ calls = 0
    /\ last = NoOp
    /\ project = NoProject
    /\ pre = Files
    /\ writer = Idle
    /\ disk = "ok"
    /\ loggers = NoLoggers

----------------------------------------------------------------------------
(* storage.log_command(command, output, exit_code) *)

\* what every operation does to the bookkeeping
Step(ticks) ==
    /\ calls < MaxCalls
    /\ calls' = calls + 1
    /\ clock' = clock + ticks
    /\ pre' = Files
    /\ UNCHANGED <<writer, disk, loggers, project>>

LogCommand(command, output, exit_code) ==
    LET ld == load_history(historyFile)
        entry == NewEntry(clock, command, output, exit_code)
        done(exc) == Op("log_command", exc, {}, IF exc = "none" THEN 0 ELSE 1,
                        exc = "none", clock,
                        [command |-> command, output |-> output, exit_code |-> exit_code],
                        <<>>)
    IN  /\ Step(1)
        /\ UNCHANGED <<snippetsFile, configFile, envKey>>
        /\ IF ld.exc # "none"
           THEN \* json.load raised something load_history does not catch
                /\ last' = done(ld.exc)
                /\ UNCHANGED historyFile
           ELSE IF ld.top # "array"
           THEN \* history.append on a value that is no list
                /\ last' = done("AttributeError")
                /\ UNCHANGED historyFile
           ELSE \* save_history(history); what open or the write raises leaves
                LET w == write_json(dump_history(AppendCapped(ld.items, entry)),
                                    historyFile)
                IN  /\ historyFile' = w.file
                    /\ last' = done(w.exc)

NextHistory ==
    \E c \in {CmdLs, CmdRm}, n \in OutputLens, e \in ExitCodes :
        LogCommand(c, GenOutput(n), e)

SpecHistory == InitHistory /\ [][NextHistory]_vars

----------------------------------------------------------------------------
(* Claims about log_command *)

LogReturned == last.op = "log_command" /\ last.exc = "none"

\* the history log_command loaded when it started
Loaded == load_history(pre.history).items

\* C1: whenever a log_command call has returned, the stored history has at
\* most 100 entries, whatever the history held before (absent, unparsable,
\* or longer than 100).
C1_HistoryAtMostCap ==
    LogReturned =>
        /\ historyFile.kind = "json"
        /\ historyFile.top = "array"
        /\ Len(historyFile.items) <= HistoryCap

C1_Witness ==
    /\ LogReturned
    /\ pre.history.kind = "json"
    /\ Len(pre.history.items) > HistoryCap
    /\ Len(historyFile.items) = HistoryCap

\* C2 as stated: after log_command the stored history is the last 100
\* elements of the history H it loaded, followed by the new entry.
C2_Last100ThenNew ==
    LogReturned =>
        LET R == historyFile.items
        IN  R = Append(SliceTail(Loaded, HistoryCap), R[Len(R)])

\* C2 amended: after log_command the stored history is the last 99 elements
\* of the history H it loaded (all of H when H has fewer), in their order and
\* unchanged, followed by the new entry.
C2_Last99ThenNew ==
    LogReturned =>
        LET H == Loaded
            R == historyFile.items
            k == Min(Len(H), HistoryCap - 1)
        IN  /\ Len(R) = k + 1
            /\ R[k + 1].timestamp = last.now
            /\ R[k + 1].command = last.arg.command
            /\ R[k + 1].exit_code = last.arg.exit_code
            /\ \A i \in 1..k : R[i] = H[Len(H) - k + i]

C2_Witness ==
    /\ LogReturned
    /\ Len(Loaded) >= HistoryCap
    /\ historyFile.items[1] = Loaded[Len(Loaded) - HistoryCap + 2]
    /\ historyFile.items[HistoryCap].timestamp = last.now

\* C3: the entry log_command appends holds the first 1000 characters of the
\* output argument (all of it when shorter), and the command and exit code
\* as given.
C3_OutputPrefix ==
    LogReturned =>
        LET e == historyFile.items[Len(historyFile.items)]
            o == last.arg.output
        IN  /\ Len(e.output) = Min(Len(o), OutputCap)
            /\ \A i \in 1..Len(e.output) : e.output[i] = o[i]
            /\ e.command = last.arg.command
            /\ e.exit_code = last.arg.exit_code

C3_Witness ==
    /\ LogReturned
    /\ Len(last.arg.output) > OutputCap
    /\ Len(historyFile.items[Len(historyFile.items)].output) = OutputCap

----------------------------------------------------------------------------
(* Snippet values.  A value stored under a name is                         *)
(*   shape "str"    a bare string (legacy): command is the string          *)
(*   shape "rec"    an object; keys are the fields it has                  *)
(*   shape "other"  any other JSON value (number, null, array)             *)
(* A command text is the sequence of its lines; <<>> is the empty string.  *)

AllKeys == {"command", "tags", "created"}

SnipStr(c) == [shape |-> "str", keys |-> {}, command |-> c, tags |-> <<>>, created |-> 0]

SnipRec(keys, c, t, cr) ==
    [shape |-> "rec", keys |-> keys,
     command |-> IF "command" \in keys THEN c ELSE <<>>,
     tags |-> IF "tags" \in keys THEN t ELSE <<>>,
     created |-> IF "created" \in keys THEN cr ELSE 0]

SnipOther == [shape |-> "other", keys |-> {}, command |-> <<>>, tags |-> <<>>, created |-> 0]

\* {'command': c, 'tags': t, 'created': cr}
Snippet(c, t, cr) == SnipRec(AllKeys, c, t, cr)

\* mutant: d.setdefault(n, v), a stored value is not replaced
Put_Keep(m, n, v) == [k \in DOMAIN m \cup {n} |-> IF k \in DOMAIN m THEN m[k] ELSE v]

\* d[n] = v  and  del d[n]
Put(m, n, v) == [k \in DOMAIN m \cup {n} |-> IF k = n THEN v ELSE m[k]]
\* mutant: the delete empties the mapping
Del_All(m, n) == <<>>

Del(m, n) == [k \in DOMAIN m \ {n} |-> m[k]]

\* json.dump(dict, f, indent=2) into a freshly opened file
dump_snippets(map) == [kind |-> "json", top |-> "object", map |-> map]

\* mutant: the command of a stored record is read under a wrong key
Normalize_WrongKey(v, now) ==
    IF v.shape = "str"
    THEN Snippet(v.command, <<>>, now)
    ELSE Snippet(<<>>,
                 IF "tags" \in v.keys THEN v.tags ELSE <<>>,
                 IF "created" \in v.keys THEN v.created ELSE now)

\* mutant: the tags of a stored record are dropped
Normalize_DropTags(v, now) ==
    IF v.shape = "str"
    THEN Snippet(v.command, <<>>, now)
    ELSE Snippet(v.command, <<>>, IF "created" \in v.keys THEN v.created ELSE now)

\* the body of the loop of load_snippets, for a string or an object
Normalize(v, now) ==
    IF v.shape = "str"
    THEN Snippet(v.command, <<>>, now)
    ELSE Snippet(IF "command" \in v.keys THEN v.command ELSE <<>>,   \* .get('command', '')
                 IF "tags" \in v.keys THEN v.tags ELSE <<>>,         \* .get('tags', [])
                 IF "created" \in v.keys THEN v.created ELSE now)   \* .get('created', now)

\* load_snippets at time now: [exc, map]
load_snippets(file, now) ==
    IF file.kind = "absent"
    THEN [exc |-> "none", map |-> <<>>]
    ELSE CASE json_load(file) = "JSONDecodeError" ->
                [exc |-> "none", map |-> <<>>]
           [] json_load(file) # "none" ->
                [exc |-> json_load(file), map |-> <<>>]
           [] file.top # "object" ->                \* data.items()
                [exc |-> "AttributeError", map |-> <<>>]
           [] \E n \in DOMAIN file.map : file.map[n].shape = "other" ->   \* value.get
                [exc |-> "AttributeError", map |-> <<>>]
           [] OTHER ->
                [exc |-> "none",
                 map |-> [n \in DOMAIN file.map |-> Normalize(file.map[n], now)]]

----------------------------------------------------------------------------
(* Config *)

ConfigKeys == {"api_key", "time_travel_enabled", "max_history"}

\* Python's None as the value of api_key
None == "None"

\* a dict with the given keys (the fields of missing keys are placeholders)
ConfigDict(keys, key, enabled, max) ==
    [top |-> "object", keys |-> keys,
     api_key |-> IF "api_key" \in keys THEN key ELSE None,
     time_travel_enabled |-> IF "time_travel_enabled" \in keys THEN enabled ELSE FALSE,
     max_history |-> IF "max_history" \in keys THEN max ELSE 0]

\* the value load_config returns when the file is absent
DefaultConfig == ConfigDict(ConfigKeys, None, TRUE, 100)

\* a JSON value that is no object (an array, a number, null), read as config
ConfigNonDict(top) == [top |-> top, keys |-> {}, api_key |-> None,
                       time_travel_enabled |-> FALSE, max_history |-> 0]

\* mutant: the api_key is not written
dump_config_NoKey(c) ==
    [kind |-> "json", top |-> c.top, keys |-> c.keys \ {"api_key"}, api_key |-> None,
     time_travel_enabled |-> c.time_travel_enabled, max_history |-> c.max_history]

\* json.dump(config, f, indent=2) into a freshly opened file
dump_config(c) ==
    [kind |-> "json", top |-> c.top, keys |-> c.keys, api_key |-> c.api_key,
     time_travel_enabled |-> c.time_travel_enabled, max_history |-> c.max_history]

\* load_config: [exc, val]
load_config(file) ==
    IF file.kind = "absent"
    THEN [exc |-> "none", val |-> DefaultConfig]
    ELSE CASE json_load(file) = "JSONDecodeError" ->
                [exc |-> "none", val |-> ConfigDict({}, None, FALSE, 0)]   \* return {}
           [] json_load(file) # "none" ->
                [exc |-> json_load(file), val |-> ConfigDict({}, None, FALSE, 0)]
           [] OTHER ->
                [exc |-> "none",
                 val |-> [top |-> file.top, keys |-> file.keys, api_key |-> file.api_key,
                          time_travel_enabled |-> file.time_travel_enabled,
                          max_history |-> file.max_history]]

\* mutant: a key is always found
get_api_key_BuiltIn(env, file) == [exc |-> "none", key |-> "builtin"]

\* get_api_key: [exc, key]; key is None when no source has one
get_api_key(env, file) ==
    IF env # ""
    THEN [exc |-> "none", key |-> env]
    ELSE LET c == load_config(file)
         IN  CASE c.exc # "none" -> [exc |-> c.exc, key |-> None]
               [] c.val.top # "object" -> [exc |-> "AttributeError", key |-> None]  \* config.get
               [] OTHER -> [exc |-> "none", key |-> c.val.api_key]

----------------------------------------------------------------------------
(* ai.ask_command.  A response text is the sequence of its lines; a line is *)
(* [starts, has, cmd]: whether it starts with "COMMAND:", whether it       *)
(* contains "COMMAND:", and line.replace("COMMAND:", "").strip().  The     *)
(* advisory messages hold no "COMMAND:".  A remote attempt is              *)
(* [ok, lines, nf, rl, au]: the text returned, or which of the substrings  *)
(* ("404"/"not found", "quota"/"limit", "api_key"/"authentication") the    *)
(* text of the exception holds.                                            *)

Reply(kind, lines, requests) == [kind |-> kind, lines |-> lines, requests |-> requests]

\* mutant: the authentication texts are looked for first
Classify_AuthFirst(err) ==
    CASE err.au -> "auth"
      [] err.rl -> "ratelimit"
      [] OTHER -> "generic"

Classify(err) ==
    CASE err.rl -> "ratelimit"
      [] err.au -> "auth"
      [] OTHER -> "generic"

\* key: the result of get_api_key; first, second: the remote attempts
ask_command(key, first, second) ==
    CASE key.exc # "none" -> Reply("generic", <<>>, 0)    \* raised inside the try
      [] key.key = None \/ key.key = "" -> Reply("nokey", <<>>, 0)
      [] first.ok -> Reply("text", first.lines, 1)
      [] first.nf ->                                      \* retried on 'models/gemini-pro'
            IF second.ok THEN Reply("text", second.lines, 2)
                         ELSE Reply("unable", <<>>, 2)
      [] OTHER -> Reply(Classify(first), <<>>, 1)

\* mutant: the other AI operations try the alternative model as well
ai_operation_Retrying(key, wf, first, second) ==
    CASE key.exc # "none" -> Reply("generic", <<>>, 0)
      [] key.key = None \/ key.key = "" -> Reply("nokey", <<>>, 0)
      [] ~wf -> Reply("generic", <<>>, 0)
      [] first.ok -> Reply("text", first.lines, 1)
      [] first.nf -> IF second.ok THEN Reply("text", second.lines, 2)
                                  ELSE Reply("unable", <<>>, 2)
      [] OTHER -> Reply(Classify(first), <<>>, 1)

\* explain_command, generate_commit_message, analyze_history and
\* suggest_rollback: wf tells whether the entries given to the last two hold
\* the keys the prompt is formatted from (a KeyError is raised inside the try)
ai_operation(key, wf, first, second) ==
    CASE key.exc # "none" -> Reply("generic", <<>>, 0)
      [] key.key = None \/ key.key = "" -> Reply("nokey", <<>>, 0)
      [] ~wf -> Reply("generic", <<>>, 0)
      [] first.ok -> Reply("text", first.lines, 1)
      [] first.nf -> Reply("unable", <<>>, 1)
      [] OTHER -> Reply(Classify(first), <<>>, 1)

----------------------------------------------------------------------------
(* The snippet commands of the CLI *)

\* t.strip() on the tag items used here
Strip(t) ==
    CASE t = " test " -> "test"
      [] t = " " -> ""
      [] OTHER -> t

NonBlank(t) == Strip(t) # ""

\* [tag.strip() for tag in tags.split(',') if tag.strip()]; the option is the
\* sequence of the items between the commas, <<>> when it is None or ''
parse_tags(items) ==
    LET kept == SelectSeq(items, NonBlank)
    IN  [i \in 1..Len(kept) |-> Strip(kept[i])]

\* the loop of the txt branch of snippet_import over lines[1..n]: a line is
\* [kind, text] with kind "hdr" (starts with '# ', text = line[2:].strip()),
\* "text" (any other non-blank line) or "blank"
RECURSIVE parse_txt(_, _)
parse_txt(lines, n) ==
    IF n = 0
    THEN [name |-> "", cmd |-> <<>>, map |-> <<>>]
    ELSE LET st == parse_txt(lines, n - 1)
             line == lines[n]
         IN  CASE line.kind = "hdr" ->
                    [name |-> line.text,
                     cmd |-> <<>>,
                     map |-> IF st.name # "" /\ st.cmd # <<>>
                             THEN Put(st.map, st.name, SnipStr(st.cmd))
                             ELSE st.map]
               [] line.kind = "text" /\ st.name # "" ->
                    [st EXCEPT !.cmd = Append(st.cmd, line.text)]
               [] OTHER -> st

\* the mapping the txt branch ends with
import_txt(lines) ==
    LET st == parse_txt(lines, Len(lines))
    IN  IF st.name # "" /\ st.cmd # <<>>
        THEN Put(st.map, st.name, SnipStr(st.cmd))
        ELSE st.map

\* the file named on the command line of snippet import, read:
\* [exc, map], exc the exception the try block catches
read_import(file) ==
    IF file.ext = "json"
    THEN CASE json_load(file) # "none" -> [exc |-> json_load(file), map |-> <<>>]
           [] file.top # "object" -> [exc |-> "TypeError", map |-> <<>>]
           [] OTHER -> [exc |-> "none", map |-> file.map]
    ELSE IF file.kind = "undecodable"
         THEN [exc |-> "UnicodeDecodeError", map |-> <<>>]
         ELSE [exc |-> "none", map |-> import_txt(file.lines)]

\* devkit snippet save NAME COMMAND [--tags ...]
SnippetSave(name, command, tags, confirm) ==
    LET ld == load_snippets(snippetsFile, clock)
        arg == [name |-> name, command |-> command, tags |-> tags, confirm |-> confirm]
        rec == Snippet(command, parse_tags(tags), clock + 1)
        done(exc, echo, exit, wrote) ==
            Op("snippet_save", exc, echo, exit, wrote, clock + 1, arg, <<>>)
    IN  /\ Step(2)
        /\ (ld.exc = "none" /\ name \in DOMAIN ld.map) \/ confirm   \* asked only then
        /\ UNCHANGED <<historyFile, configFile, envKey>>
        /\ IF ld.exc # "none"
           THEN /\ last' = done(ld.exc, {}, 1, FALSE)
                /\ UNCHANGED snippetsFile
           ELSE IF name \in DOMAIN ld.map /\ ~confirm
           THEN /\ last' = done("none", {}, 0, FALSE)
                /\ UNCHANGED snippetsFile
           ELSE \* save_snippets raising ends the process before the echo
                LET w == write_json(dump_snippets(Put(ld.map, name, rec)), snippetsFile)
                IN  /\ snippetsFile' = w.file
                    /\ last' = IF w.exc = "none"
                               THEN done("none", {"saved"}, 0, TRUE)
                               ELSE done(w.exc, {}, 1, FALSE)

\* mutant: every imported name is written
import_written_All(imported, existing, overwrite) == DOMAIN imported

\* the names the import loop writes: `if name not in existing_snippets or overwrite`
import_written(imported, existing, overwrite) ==
    {n \in DOMAIN imported : n \notin DOMAIN existing \/ overwrite}

\* devkit snippet import FILENAME [--overwrite]
SnippetImport(file, overwrite, confirm) ==
    LET imp == read_import(file)
        ld == load_snippets(snippetsFile, clock)
        arg == [file |-> file, overwrite |-> overwrite, confirm |-> confirm]
        conflicts == {n \in DOMAIN imp.map : n \in DOMAIN ld.map /\ ~overwrite}
        written == import_written(imp.map, ld.map, overwrite)
        merged == [n \in DOMAIN ld.map \cup written |->
                      IF n \in written THEN imp.map[n] ELSE ld.map[n]]
        done(echo, wrote, count) ==
            Op("snippet_import", "none", echo, 0, wrote, clock, arg, count)
        asked == file.kind # "absent" /\ imp.exc = "none" /\ ld.exc = "none"
                 /\ conflicts # {}
    IN  /\ Step(1)
        /\ asked \/ confirm
        /\ UNCHANGED <<historyFile, configFile, envKey>>
        /\ IF file.kind = "absent"
           THEN /\ last' = done({"not_found"}, FALSE, 0)
                /\ UNCHANGED snippetsFile
           ELSE IF imp.exc # "none" \/ ld.exc # "none"
           THEN /\ last' = done({"import_failed"}, FALSE, 0)   \* except Exception
                /\ UNCHANGED snippetsFile
           ELSE IF conflicts # {} /\ ~confirm
           THEN /\ last' = done({"conflicts"}, FALSE, 0)
                /\ UNCHANGED snippetsFile
           ELSE \* save_snippets raising is caught by except Exception, which
                \* echoes "Import failed" and returns
                LET w == write_json(dump_snippets(merged), snippetsFile)
                    told == IF conflicts # {} THEN {"conflicts"} ELSE {}
                IN  /\ snippetsFile' = w.file
                    /\ last' = IF w.exc = "none"
                               THEN done(told \cup {"imported"}, TRUE, Cardinality(written))
                               ELSE done(told \cup {"import_failed"}, FALSE, 0)

\* devkit snippet delete NAME
SnippetDelete(name) ==
    LET ld == load_snippets(snippetsFile, clock)
        done(echo, exit, wrote) ==
            Op("snippet_delete", "none", echo, exit, wrote, clock, [name |-> name], <<>>)
    IN  /\ Step(1)
        /\ UNCHANGED <<historyFile, configFile, envKey>>
        /\ IF ld.exc # "none"
           THEN /\ last' = done({"error"}, 1, FALSE)      \* except Exception: sys.exit(1)
                /\ UNCHANGED snippetsFile
           ELSE IF name \notin DOMAIN ld.map
           THEN /\ last' = done({"not_found"}, 0, FALSE)
                /\ UNCHANGED snippetsFile
           ELSE \* save_snippets raising is caught: echo, sys.exit(1)
                LET w == write_json(dump_snippets(Del(ld.map, name)), snippetsFile)
                IN  /\ snippetsFile' = w.file
                    /\ last' = IF w.exc = "none"
                               THEN done({"deleted"}, 0, TRUE)
                               ELSE done({"error"}, 1, FALSE)

\* devkit ask QUERY..., with the google-generativeai package installed
Ask(first, second, confirm, name) ==
    LET reply == ask_command(get_api_key(envKey, configFile), first, second)
        found == {i \in 1..Len(reply.lines) : reply.lines[i].starts}
        line == reply.lines[CHOOSE i \in found : \A j \in found : i <= j]
        prompted == (\E i \in 1..Len(reply.lines) : reply.lines[i].has) /\ found # {}
        ld == load_snippets(snippetsFile, clock)
        arg == [first |-> first, second |-> second, confirm |-> confirm, name |-> name]
        done(exc, echo, exit, wrote) ==
            Op("ask", exc, echo, exit, wrote, clock, arg, reply)
    IN  /\ Step(1)
        /\ prompted \/ ~confirm
        /\ UNCHANGED <<historyFile, configFile, envKey>>
        /\ IF ~(prompted /\ confirm)
           THEN /\ last' = done("none", {reply.kind}, 0, FALSE)
                /\ UNCHANGED snippetsFile
           ELSE IF ld.exc # "none"
           THEN /\ last' = done(ld.exc, {reply.kind}, 1, FALSE)
                /\ UNCHANGED snippetsFile
           ELSE LET w == write_json(dump_snippets(Put(ld.map, name, SnipStr(line.cmd))),
                                    snippetsFile)
                IN  /\ snippetsFile' = w.file
                    /\ last' = IF w.exc = "none"
                               THEN done("none", {reply.kind, "saved_as"}, 0, TRUE)
                               ELSE done(w.exc, {reply.kind}, 1, FALSE)

\* storage.save_snippets(snippets)
SaveSnippets(map) ==
    /\ Step(1)
    /\ UNCHANGED <<historyFile, configFile, envKey>>
    /\ snippetsFile' = write_json(dump_snippets(map), snippetsFile).file
    /\ last' = Op("save_snippets", write_json(dump_snippets(map), snippetsFile).exc, {},
                  IF disk = "ok" THEN 0 ELSE 1, disk = "ok", clock, [map |-> map], <<>>)

\* storage.load_snippets()
LoadSnippets ==
    LET ld == load_snippets(snippetsFile, clock)
    IN  /\ Step(1)
        /\ UNCHANGED <<snippetsFile, historyFile, configFile, envKey>>
        /\ last' = Op("load_snippets", ld.exc, {}, 0, FALSE, clock, <<>>, ld.map)

----------------------------------------------------------------------------
(* Inputs of the snippet specification *)

Names == {"a", "b"}
SnipCmds == {<<"ls">>, <<"pwd">>}
TagOptions == {<<>>, <<"demo", " test ", " ">>}

\* map with the single entry n -> v, and with two entries
One(n, v) == Put(<<>>, n, v)
Two(n, v, m, w) == Put(One(n, v), m, w)

StoredMaps ==
    {<<>>,
     One("a", SnipStr(<<"ls">>)),
     One("a", SnipRec({"command"}, <<"ls">>, <<>>, 0)),
     Two("a", Snippet(<<"ls">>, <<"demo">>, 1), "b", SnipStr(<<"echo">>))}

InitSnippetFiles ==
    {Absent, Broken("garbage"), Broken("undecodable"),
     [kind |-> "json", top |-> "array", map |-> <<>>],
     dump_snippets(One("a", SnipOther))}
        \cup {dump_snippets(m) : m \in StoredMaps}

KeyedConfig == dump_config(ConfigDict(ConfigKeys, "k", TRUE, 100))

Hdr(name) == [kind |-> "hdr", text |-> name]
Text(t) == [kind |-> "text", text |-> t]
Blank == [kind |-> "blank", text |-> ""]

ImportFile(ext, kind, top, map, lines) ==
    [ext |-> ext, kind |-> kind, top |-> top, map |-> map, lines |-> lines]

ImportFiles ==
    {ImportFile("json", "absent", "none", <<>>, <<>>),
     ImportFile("json", "garbage", "none", <<>>, <<>>),
     ImportFile("json", "json", "number", <<>>, <<>>),
     ImportFile("json", "json", "object", One("a", Snippet(<<"pwd">>, <<"x">>, 1)), <<>>),
     ImportFile("json", "json", "object", One("b", SnipStr(<<"pwd">>)), <<>>),
     ImportFile("json", "json", "object",
                Two("a", SnipStr(<<"pwd">>), "c", SnipStr(<<"df">>)), <<>>),
     ImportFile("txt", "undecodable", "none", <<>>, <<>>),
     ImportFile("txt", "text", "none", <<>>, <<Hdr("a"), Text("pwd"), Blank>>),
     ImportFile("txt", "text", "none", <<>>,
                <<Text("x"), Hdr("b"), Hdr("Tags: demo"), Text("ls"), Text("pwd"), Blank>>)}

CmdLine(c) == [starts |-> TRUE, has |-> TRUE, cmd |-> c]
Indented(c) == [starts |-> FALSE, has |-> TRUE, cmd |-> c]
Plain == [starts |-> FALSE, has |-> FALSE, cmd |-> <<>>]

RemoteOk(lines) == [ok |-> TRUE, lines |-> lines, nf |-> FALSE, rl |-> FALSE, au |-> FALSE]
RemoteErr(nf, rl, au) == [ok |-> FALSE, lines |-> <<>>, nf |-> nf, rl |-> rl, au |-> au]

FirstAttempts ==
    {RemoteOk(<<CmdLine(<<"du">>), Plain>>),
     RemoteOk(<<Plain, Indented(<<"du">>)>>),
     RemoteErr(TRUE, FALSE, FALSE),
     RemoteErr(FALSE, TRUE, FALSE)}

\* the second attempt is made only after a not-found error of the first
SecondAttempts(first) ==
    IF ~first.ok /\ first.nf
    THEN {RemoteOk(<<Plain, CmdLine(<<"df">>)>>), RemoteErr(FALSE, FALSE, FALSE)}
    ELSE {RemoteErr(FALSE, FALSE, FALSE)}

InitSnippets ==
    /\ snippetsFile \in InitSnippetFiles
    /\ historyFile = Absent
    /\ configFile \in {Absent, KeyedConfig}
    /\ envKey = ""
    /\ clock = 2
    /\ calls = 0
    /\ last = NoOp
    /\ project = NoProject
    /\ pre = Files
    /\ writer = Idle
    /\ disk = "ok"
    /\ loggers = NoLoggers

NextSnippets ==
    \/ \E n \in Names, c \in SnipCmds, t \in TagOptions, y \in BOOLEAN :
          SnippetSave(n, c, t, y)
    \/ \E f \in ImportFiles, o \in BOOLEAN, y \in BOOLEAN : SnippetImport(f, o, y)
    \/ \E n \in Names : SnippetDelete(n)
    \/ \E f \in FirstAttempts, y \in BOOLEAN, n \in Names :
          \E g \in SecondAttempts(f) : Ask(f, g, y, n)
    \/ \E m \in {One("b", Snippet(<<"pwd">>, <<>>, 1)),
                 One("a", SnipRec({"command"}, <<"pwd">>, <<>>, 0))} : SaveSnippets(m)
    \/ LoadSnippets

SpecSnippets == InitSnippets /\ [][NextSnippets]_vars

----------------------------------------------------------------------------
(* Claims about the snippet document *)

\* what load_snippets returns when called now
LoadNow == load_snippets(snippetsFile, clock)

\* load_snippets now returns a record under n with command c, tags and created
LoadsBack(n, c) ==
    /\ LoadNow.exc = "none"
    /\ n \in DOMAIN LoadNow.map
    /\ LoadNow.map[n].shape = "rec"
    /\ LoadNow.map[n].command = c
    /\ {"tags", "created"} \subseteq LoadNow.map[n].keys

\* C4: after a snippet is saved, by `snippet save` or by save_snippets,
\* load_snippets returns under its name a record with the saved command text,
\* a tags field and a created field.
C4_SaveThenLoad ==
    /\ (last.op = "snippet_save" /\ last.wrote)
          => LoadsBack(last.arg.name, last.arg.command)
    /\ last.op = "save_snippets"
          => \A n \in DOMAIN last.arg.map :
                LoadsBack(n, last.arg.map[n].command)

C4_Witness ==
    /\ last.op = "snippet_save"
    /\ last.wrote
    /\ pre.snippets.kind = "json"
    /\ pre.snippets.top = "object"
    /\ DOMAIN pre.snippets.map # {}
    /\ last.arg.name \notin DOMAIN pre.snippets.map
    /\ LoadNow.map[last.arg.name].command = last.arg.command

\* C5 as stated: after every CLI operation that writes the snippet document
\* (snippet save, snippet import, snippet delete, ask), every stored value is
\* a structured record with command, tags and created.
C5_AlwaysStructured ==
    (last.op \in {"snippet_save", "snippet_import", "snippet_delete", "ask"}
        /\ last.wrote)
    => \A n \in DOMAIN snippetsFile.map :
          /\ snippetsFile.map[n].shape = "rec"
          /\ snippetsFile.map[n].keys = AllKeys

\* C6: load_snippets turns every bare string s into a record with command s,
\* no tags and the time of the load as created, and keeps the command, tags
\* and created values that a stored record has.
C6_LoadNormalizes ==
    (last.op = "load_snippets" /\ last.exc = "none"
        /\ pre.snippets.kind = "json" /\ pre.snippets.top = "object")
    => /\ DOMAIN last.ret = DOMAIN pre.snippets.map
       /\ \A n \in DOMAIN pre.snippets.map :
            LET v == pre.snippets.map[n]
                r == last.ret[n]
            IN  /\ r.shape = "rec" /\ r.keys = AllKeys
                /\ v.shape = "str" =>
                      r.command = v.command /\ r.tags = <<>> /\ r.created = last.now
                /\ v.shape = "rec" =>
                      /\ "command" \in v.keys => r.command = v.command
                      /\ "tags" \in v.keys => r.tags = v.tags
                      /\ "created" \in v.keys => r.created = v.created

C6_Witness ==
    /\ last.op = "load_snippets"
    /\ last.exc = "none"
    /\ pre.snippets.kind = "json"
    /\ \E n, m \in DOMAIN pre.snippets.map :
          /\ pre.snippets.map[n].shape = "str"
          /\ last.ret[n].created = last.now
          /\ pre.snippets.map[m].shape = "rec"
          /\ pre.snippets.map[m].tags # <<>>
          /\ last.ret[m].created < last.now

----------------------------------------------------------------------------
(* rollback: the danger classifier.  A command is the sequence of its      *)
(* characters.                                                             *)

DANGEROUS_KEYWORDS ==
    <<<<"d", "e", "p", "l", "o", "y">>,
      <<"p", "u", "s", "h">>,
      <<"d", "e", "l", "e", "t", "e">>,
      <<"d", "r", "o", "p">>,
      <<"r", "m">>,
      <<"r", "e", "m", "o", "v", "e">>,
      <<"p", "r", "u", "n", "e">>,
      <<"m", "i", "g", "r", "a", "t", "e">>,
      <<"r", "o", "l", "l", "o", "u", "t">>,
      <<"a", "p", "p", "l", "y">>,
      <<"d", "e", "s", "t", "r", "o", "y">>,
      <<"s", "h", "u", "t", "d", "o", "w", "n">>,
      <<"r", "e", "b", "o", "o", "t">>,
      <<"k", "i", "l", "l">>,
      <<"f", "o", "r", "c", "e">>,
      <<"p", "r", "o", "d", "u", "c", "t", "i", "o", "n">>,
      <<"p", "r", "o", "d">>,
      <<"m", "a", "s", "t", "e", "r">>,
      <<"m", "a", "i", "n">>>>

UpperCase == <<"A", "B", "C", "D", "E", "F", "G", "H", "I", "J", "K", "L", "M", "N", "O", "P", "Q", "R", "S", "T", "U", "V", "W", "X", "Y", "Z">>
LowerCase == <<"a", "b", "c", "d", "e", "f", "g", "h", "i", "j", "k", "l", "m", "n", "o", "p", "q", "r", "s", "t", "u", "v", "w", "x", "y", "z">>

\* c.lower() for one character
LowerChar(c) ==
    IF \E j \in 1..Len(UpperCase) : UpperCase[j] = c
    THEN LowerCase[CHOOSE j \in 1..Len(UpperCase) : UpperCase[j] = c]
    ELSE c

\* s.lower()
lower(s) == [i \in 1..Len(s) |-> LowerChar(s[i])]

\* mutant: the keyword is looked for at the start only
Contains_AtStart(s, k) ==
    Len(k) <= Len(s) /\ SubSeq(s, 1, Len(k)) = k

\* k in s
Contains(s, k) ==
    \E i \in 1..(Len(s) - Len(k) + 1) : SubSeq(s, i, i + Len(k) - 1) = k

\* mutant: the command is matched as typed
is_dangerous_command_CaseSensitive(command) ==
    \E j \in 1..Len(DANGEROUS_KEYWORDS) : Contains(command, DANGEROUS_KEYWORDS[j])

is_dangerous_command(command) ==
    \E j \in 1..Len(DANGEROUS_KEYWORDS) : Contains(lower(command), DANGEROUS_KEYWORDS[j])

\* mutant: the empty history is not told apart
Truthy_Always(h) == TRUE

\* bool(history) for the value load_history returned
Truthy(h) ==
    CASE h.top = "array" -> h.items # <<>>
      [] h.top \in {"emptyobject", "null"} -> FALSE
      [] OTHER -> TRUE

\* history[-limit:] for a list and limit >= 0 (history[-0:] is the whole list)
Recent(items, limit) == IF limit = 0 THEN items ELSE SliceTail(items, limit)

\* [entry for entry in recent if is_dangerous_command(entry['command'])]
DangerousOf(recent) ==
    LET Dangerous(entry) == is_dangerous_command(entry.command)
    IN  SelectSeq(recent, Dangerous)

\* find_recent_dangerous_commands(limit): [exc, items]
find_recent_dangerous_commands(file, limit) ==
    LET h == load_history(file)
    IN  CASE h.exc # "none" -> [exc |-> h.exc, items |-> <<>>]
          [] ~Truthy(h) -> [exc |-> "none", items |-> <<>>]
          [] h.top # "array" -> [exc |-> "TypeError", items |-> <<>>]   \* history[-limit:]
          [] \E i \in 1..Len(Recent(h.items, limit)) : ~Recent(h.items, limit)[i].wf ->
                [exc |-> "TypeError", items |-> <<>>]                   \* entry['command']
          [] OTHER -> [exc |-> "none", items |-> DangerousOf(Recent(h.items, limit))]

----------------------------------------------------------------------------
(* The read operations and the status command *)

\* the first exception of a sequence of outcomes, "none" when there is none
RECURSIVE FirstExc(_)
FirstExc(excs) ==
    IF excs = <<>> THEN "none"
    ELSE IF Head(excs) # "none" THEN Head(excs)
    ELSE FirstExc(Tail(excs))

\* storage.load_history()
LoadHistory ==
    LET ld == load_history(historyFile)
    IN  /\ Step(1)
        /\ UNCHANGED <<snippetsFile, historyFile, configFile, envKey>>
        /\ last' = Op("load_history", ld.exc, {}, 0, FALSE, clock, <<>>,
                      [top |-> ld.top, items |-> ld.items])

\* storage.load_config()
LoadConfig ==
    LET ld == load_config(configFile)
    IN  /\ Step(1)
        /\ UNCHANGED <<snippetsFile, historyFile, configFile, envKey>>
        /\ last' = Op("load_config", ld.exc, {}, 0, FALSE, clock, <<>>, ld.val)

\* rollback.find_recent_dangerous_commands(limit)
FindRecentDangerous(limit) ==
    LET fr == find_recent_dangerous_commands(historyFile, limit)
    IN  /\ Step(1)
        /\ UNCHANGED <<snippetsFile, historyFile, configFile, envKey>>
        /\ last' = Op("find_recent_dangerous_commands", fr.exc, {}, 0, FALSE, clock,
                      [limit |-> limit], fr.items)

\* storage.get_api_key()
GetApiKey ==
    LET k == get_api_key(envKey, configFile)
    IN  /\ Step(1)
        /\ UNCHANGED <<snippetsFile, historyFile, configFile, envKey>>
        /\ last' = Op("get_api_key", k.exc, {}, 0, FALSE, clock, <<>>, k.key)

\* devkit status
Status ==
    LET ls == load_snippets(snippetsFile, clock)
        lh == load_history(historyFile)
        \* len(history)
        lenExc == IF lh.top \in {"number", "null"} THEN "TypeError" ELSE "none"
        \* if history: failures = [h for h in history if h['exit_code'] != 0]
        failExc == IF Truthy(lh)
                      /\ (lh.top # "array" \/ \E i \in 1..Len(lh.items) : ~lh.items[i].wf)
                   THEN "TypeError" ELSE "none"
        failed == {i \in 1..Len(lh.items) : lh.items[i].exit_code # 0}
        fr == find_recent_dangerous_commands(historyFile, 10)
        key == get_api_key(envKey, configFile)
        exc == FirstExc(<<ls.exc, lh.exc, lenExc, failExc, fr.exc, key.exc>>)
    IN  /\ Step(1)
        /\ UNCHANGED <<snippetsFile, historyFile, configFile, envKey>>
        /\ IF exc # "none"
           THEN last' = Op("status", exc, {"status"}, 1, FALSE, clock, <<>>, <<>>)
           ELSE last' = Op("status", "none", {"status"}, 0, FALSE, clock, <<>>,
                           [snippets |-> Cardinality(DOMAIN ls.map),
                            history |-> Len(lh.items),
                            failed |-> Cardinality(failed),
                            dangerous |-> Len(fr.items),
                            ai |-> key.key # None /\ key.key # ""])

----------------------------------------------------------------------------
(* Inputs of the specification of the read operations: every kind of       *)
(* content of the three files                                              *)

HistFile(top, items) == [kind |-> "json", top |-> top, items |-> items]

\* an array element that is no object (a number)
BadElem == [wf |-> FALSE, timestamp |-> 0, command |-> <<>>, output |-> <<>>,
            exit_code |-> 0]

InitHistoryFiles ==
    {Absent, Broken("empty"), Broken("garbage"), Broken("undecodable"),
     HistFile("array", <<>>),
     HistFile("array", <<NewEntry(1, CmdRm, GenOutput(2), 1), NewEntry(2, CmdLs, <<>>, 0)>>),
     HistFile("array", <<BadElem>>),
     HistFile("emptyobject", <<>>),
     HistFile("object", <<>>),
     HistFile("number", <<>>)}

InitConfigFiles ==
    {Absent, Broken("garbage"), Broken("undecodable"),
     KeyedConfig,
     dump_config(ConfigDict({}, None, FALSE, 0)),
     dump_config(ConfigNonDict("array"))}

InitLoad ==
    /\ snippetsFile \in {Absent, Broken("garbage"), Broken("undecodable"),
                         [kind |-> "json", top |-> "array", map |-> <<>>],
                         dump_snippets(One("a", SnipOther)),
                         dump_snippets(One("a", SnipStr(<<"ls">>)))}
    /\ historyFile \in InitHistoryFiles
    /\ configFile \in InitConfigFiles
    /\ envKey \in {"", "envk"}
    /\ clock = 3
    /\ calls = 0
    /\ last = NoOp
    /\ project = NoProject
    /\ pre = Files
    /\ writer = Idle
    /\ disk = "ok"
    /\ loggers = NoLoggers

NextLoad ==
    \/ LoadSnippets
    \/ LoadHistory
    \/ LoadConfig
    \/ LogCommand(CmdRm, GenOutput(2), 1)
    \/ \E limit \in {0, 1, 10} : FindRecentDangerous(limit)
    \/ GetApiKey
    \/ Status

SpecLoad == InitLoad /\ [][NextLoad]_vars

----------------------------------------------------------------------------
(* Claims about corrupt and missing documents *)

Unparsable(file) == file.kind # "json"

\* C7 as stated: load_snippets returns the empty mapping and load_history the
\* empty sequence, without raising, whenever the file is absent or its content
\* cannot be parsed as JSON.
C7_LoadFailsSoft ==
    /\ (last.op = "load_snippets" /\ Unparsable(pre.snippets))
          => (last.exc = "none" /\ last.ret = <<>>)
    /\ (last.op = "load_history" /\ Unparsable(pre.history))
          => (last.exc = "none" /\ last.ret.top = "array" /\ last.ret.items = <<>>)

\* C8 as stated, for the files that are absent or hold a JSON document of any
\* shape: the load operations, log_command, find_recent_dangerous_commands
\* and the status command complete without raising.
Parses(file) == file.kind \in {"absent", "json"}

C8_CorruptNeverFatal ==
    (/\ last.op \in {"load_snippets", "load_history", "load_config", "log_command",
                    "find_recent_dangerous_commands", "status"}
     /\ Parses(pre.snippets) /\ Parses(pre.history) /\ Parses(pre.config))
    => last.exc = "none"

\* C9 as stated: load_config returns the default configuration
\* {api_key: None, time_travel_enabled: True, max_history: 100} both when the
\* config file is absent and when its text is not JSON.
C9_ConfigDefaults ==
    (last.op = "load_config"
        /\ pre.config.kind \in {"absent", "empty", "partial", "garbage"})
    => (last.exc = "none" /\ last.ret = DefaultConfig)

----------------------------------------------------------------------------
(* save_snippets step by step, as another process or a crash sees it:      *)
(* open(SNIPPETS_FILE, 'w') truncates the file, json.dump writes through   *)
(* the buffer of the file object, leaving the with block flushes and       *)
(* closes.                                                                 *)

\* with open(SNIPPETS_FILE, 'w') as f:
SaveOpen(map) ==
    /\ writer.pc = "idle"
    /\ calls < MaxCalls
    /\ calls' = calls + 1
    /\ writer' = [pc |-> "opened", map |-> map]
    /\ snippetsFile' = Broken("empty")
    /\ pre' = Files
    /\ last' = Op("save_snippets", "none", {}, 0, TRUE, clock, [map |-> map], <<>>)
    /\ UNCHANGED <<historyFile, configFile, envKey, clock, disk, loggers, project>>

\* json.dump(snippets, f, indent=2): what has left the buffer is a prefix
SaveDump ==
    /\ writer.pc = "opened"
    /\ writer' = [writer EXCEPT !.pc = "dumped"]
    /\ snippetsFile' \in {Broken("empty"), Broken("partial")}
    /\ UNCHANGED <<historyFile, configFile, envKey, clock, calls, last, pre, disk, loggers, project>>

\* the end of the with block
SaveClose ==
    /\ writer.pc = "dumped"
    /\ writer' = [writer EXCEPT !.pc = "idle"]
    /\ snippetsFile' = dump_snippets(writer.map)
    /\ UNCHANGED <<historyFile, configFile, envKey, clock, calls, last, pre, disk, loggers, project>>

\* the saving process is killed before the with block ends
SaveInterrupted ==
    /\ writer.pc \in {"opened", "dumped"}
    /\ writer' = [writer EXCEPT !.pc = "idle"]
    /\ UNCHANGED <<snippetsFile, historyFile, configFile, envKey, clock, calls, last, pre, disk, loggers, project>>

\* another devkit process calls load_snippets
ObserveLoad ==
    LET ld == load_snippets(snippetsFile, clock)
    IN  /\ last' = Op("load_snippets", ld.exc, {}, 0, FALSE, clock, <<>>, ld.map)
        /\ UNCHANGED <<snippetsFile, historyFile, configFile, envKey, clock, calls, pre,
                       writer, disk, loggers, project>>

SavedMaps ==
    {One("a", Snippet(<<"ls">>, <<>>, 1)),
     One("b", Snippet(<<"pwd">>, <<"demo">>, 1)),
     Two("a", Snippet(<<"ls">>, <<>>, 1), "b", Snippet(<<"pwd">>, <<"demo">>, 1))}

InitSave ==
    /\ snippetsFile \in {dump_snippets(m) : m \in SavedMaps}
    /\ historyFile = Absent
    /\ configFile = Absent
    /\ envKey = ""
    /\ clock = 2
    /\ calls = 0
    /\ last = NoOp
    /\ project = NoProject
    /\ pre = Files
    /\ writer = Idle
    /\ disk = "ok"
    /\ loggers = NoLoggers

NextSave ==
    \/ \E m \in SavedMaps : SaveOpen(m)
    \/ SaveDump
    \/ SaveClose
    \/ SaveInterrupted
    \/ ObserveLoad

SpecSave == InitSave /\ [][NextSave]_vars

\* C10 as stated: whenever another process reads the snippet file, during a
\* save or after it ended or was interrupted, it sees the complete previous
\* mapping or the complete new mapping.
C10_AtomicSave ==
    (last.op = "load_snippets" /\ calls > 0)
    => /\ last.exc = "none"
       /\ \/ last.ret = load_snippets(pre.snippets, last.now).map
          \/ last.ret = writer.map

----------------------------------------------------------------------------
(* The classifier applied to commands: the commands the documentation      *)
(* names, their case variants, and every string of up to MaxCmdLen         *)
(* characters over "r", "m", "R", "M"                                      *)

GitPushOriginMain ==
    <<"g", "i", "t", " ", "p", "u", "s", "h", " ", "o", "r", "i", "g", "i", "n", " ",
      "m", "a", "i", "n">>
Masterclass == <<"m", "a", "s", "t", "e", "r", "c", "l", "a", "s", "s">>
LsLa == <<"l", "s", " ", "-", "l", "a">>
Format == <<"f", "o", "r", "m", "a", "t">>

\* c.upper() for one character, and s.upper()
UpperChar(c) ==
    IF \E j \in 1..Len(LowerCase) : LowerCase[j] = c
    THEN UpperCase[CHOOSE j \in 1..Len(LowerCase) : LowerCase[j] = c]
    ELSE c

upper(s) == [i \in 1..Len(s) |-> UpperChar(s[i])]

\* s.capitalize() as far as the first character goes
UpperFirst(s) == [i \in 1..Len(s) |-> IF i = 1 THEN UpperChar(s[i]) ELSE s[i]]

NamedCommands == {GitPushOriginMain, Masterclass, LsLa, Format, CmdLs, CmdRm}

ShortCommands ==
    UNION {[1..n -> {"r", "m", "R", "M"}] : n \in 0..MaxCmdLen}

ClassifyInputs ==
    NamedCommands \cup {upper(c) : c \in NamedCommands}
        \cup {UpperFirst(c) : c \in NamedCommands} \cup ShortCommands

\* rollback.is_dangerous_command(command)
IsDangerousCommand(command) ==
    /\ Step(1)
    /\ UNCHANGED <<snippetsFile, historyFile, configFile, envKey>>
    /\ last' = Op("is_dangerous_command", "none", {}, 0, FALSE, clock,
                  [command |-> command], is_dangerous_command(command))

InitClassify ==
    /\ snippetsFile = Absent
    /\ historyFile = Absent
    /\ configFile = Absent
    /\ envKey = ""
    /\ clock = 1
    /\ calls = 0
    /\ last = NoOp
    /\ project = NoProject
    /\ pre = Files
    /\ writer = Idle
    /\ disk = "ok"
    /\ loggers = NoLoggers

NextClassify == \E c \in ClassifyInputs : IsDangerousCommand(c)

SpecClassify == InitClassify /\ [][NextClassify]_vars

\* the command whose classification `last` holds
Classified == last.arg.command

\* keyword k stands in s at position i
StandsAt(s, k, i) ==
    /\ i + Len(k) - 1 <= Len(s)
    /\ \A n \in 1..Len(k) : s[i + n - 1] = k[n]

\* C11: is_dangerous_command(c) is true exactly when one of the 19 keywords
\* stands somewhere in the lower-cased c, inside a word or not: "git push
\* origin main" and "masterclass" are dangerous, "ls -la" is not, and the
\* upper-case and lower-case variants of c are classified as c is.
C11_SubstringMatch ==
    last.op = "is_dangerous_command" =>
        /\ Len(DANGEROUS_KEYWORDS) = 19
        /\ last.ret <=> \E j \in 1..19, i \in 1..Len(Classified) :
                            StandsAt(lower(Classified), DANGEROUS_KEYWORDS[j], i)
        /\ Classified \in {GitPushOriginMain, Masterclass} => last.ret
        /\ Classified = LsLa => ~last.ret
        /\ is_dangerous_command(upper(Classified)) = last.ret
        /\ is_dangerous_command(lower(Classified)) = last.ret

\* an upper-case command holding a keyword was classified dangerous
C11_Witness ==
    /\ last.op = "is_dangerous_command"
    /\ Classified = upper(Masterclass)
    /\ last.ret

\* C12 as stated: "format" holds none of the keywords:
\* is_dangerous_command("format") is false.
C12_FormatNotDangerous ==
    (last.op = "is_dangerous_command" /\ Classified = Format) => ~last.ret

\* C12 amended: "format" holds the keyword "rm" (fo-rm-at), so
\* is_dangerous_command("format") is true.
C12_FormatIsDangerous ==
    (last.op = "is_dangerous_command" /\ Classified = Format) =>
        /\ last.ret
        /\ StandsAt(Format, <<"r", "m">>, 3)
        /\ \E j \in 1..Len(DANGEROUS_KEYWORDS) : DANGEROUS_KEYWORDS[j] = <<"r", "m">>

C12_Witness ==
    /\ last.op = "is_dangerous_command"
    /\ Classified = Format
    /\ last.ret

----------------------------------------------------------------------------
(* Claims about find_recent_dangerous_commands and get_api_key *)

\* the last n elements of s, none when n = 0
LastN(s, n) == [i \in 1..Min(n, Len(s)) |-> s[Len(s) - Min(n, Len(s)) + i]]

\* the stored history is a list of entries
EntriesStored(file) ==
    /\ load_history(file).exc = "none"
    /\ load_history(file).top = "array"
    /\ \A i \in 1..Len(load_history(file).items) : load_history(file).items[i].wf

\* C13 as stated: for every stored history and every limit >= 0, limit = 0
\* included, find_recent_dangerous_commands(limit) returns at most limit
\* entries: the dangerous entries of the last limit entries of the history, in
\* their order, none left out.
C13_RecentDangerous ==
    (last.op = "find_recent_dangerous_commands" /\ EntriesStored(pre.history)) =>
        LET IsDangerous(entry) == is_dangerous_command(entry.command)
        IN  /\ last.exc = "none"
            /\ Len(last.ret) <= last.arg.limit
            /\ last.ret = SelectSeq(LastN(load_history(pre.history).items, last.arg.limit),
                                    IsDangerous)

\* C15 as stated: get_api_key returns the value of the environment variable
\* when it is set, whatever the config file holds; otherwise the api_key of the
\* config file; and None when neither has one, the config file being absent or
\* corrupt included.
C15_ApiKeyPrecedence ==
    last.op = "get_api_key" =>
        /\ last.exc = "none"
        /\ last.ret = IF envKey # "" THEN envKey
                      ELSE IF pre.config.kind = "json" /\ pre.config.top = "object"
                              /\ "api_key" \in pre.config.keys
                      THEN pre.config.api_key
                      ELSE None

----------------------------------------------------------------------------
(* The commands that write the history and the config, and the writing     *)
(* commands on a disk that may refuse the write                            *)

\* mutant: clear_history leaves the file as it is
clear_history_Keep(old) == [exc |-> "none", file |-> old]

\* storage.clear_history(): save_history([])
clear_history(old) == write_json(dump_history(<<>>), old)

\* devkit clear; click's confirmation_option aborts when the prompt is declined
Clear(confirm) ==
    LET w == clear_history(historyFile)
        done(exc, echo, exit, wrote) ==
            Op("clear", exc, echo, exit, wrote, clock, [confirm |-> confirm], <<>>)
    IN  /\ Step(1)
        /\ UNCHANGED <<snippetsFile, configFile, envKey>>
        /\ IF ~confirm
           THEN /\ last' = done("none", {"aborted"}, 1, FALSE)
                /\ UNCHANGED historyFile
           ELSE /\ historyFile' = w.file
                /\ last' = IF w.exc = "none"
                           THEN done("none", {"cleared"}, 0, TRUE)
                           ELSE done(w.exc, {}, 1, FALSE)

\* devkit config --api-key KEY, KEY not empty
ConfigSetKey(key) ==
    LET c == load_config(configFile)
        \* config_data['api_key'] = api_key
        set == [c.val EXCEPT !.keys = @ \cup {"api_key"}, !.api_key = key]
        w == write_json(dump_config(set), configFile)
        done(exc, echo, exit, wrote) ==
            Op("config", exc, echo, exit, wrote, clock, [api_key |-> key], <<>>)
    IN  /\ Step(1)
        /\ UNCHANGED <<snippetsFile, historyFile, envKey>>
        /\ IF c.exc # "none"
           THEN /\ last' = done(c.exc, {}, 1, FALSE)
                /\ UNCHANGED configFile
           ELSE IF c.val.top # "object"
           THEN /\ last' = done("TypeError", {}, 1, FALSE)   \* item assignment
                /\ UNCHANGED configFile
           ELSE /\ configFile' = w.file
                /\ last' = IF w.exc = "none"
                           THEN done("none", {"key_saved"}, 0, TRUE)
                           ELSE done(w.exc, {}, 1, FALSE)

\* storage.save_config(storage.load_config())
SaveLoadedConfig ==
    LET c == load_config(configFile)
        w == write_json(dump_config(c.val), configFile)
        done(exc) == Op("save_config", exc, {}, IF exc = "none" THEN 0 ELSE 1,
                        exc = "none", clock, [config |-> c.val], <<>>)
    IN  /\ Step(1)
        /\ UNCHANGED <<snippetsFile, historyFile, envKey>>
        /\ IF c.exc # "none"
           THEN /\ last' = done(c.exc)
                /\ UNCHANGED configFile
           ELSE /\ configFile' = w.file
                /\ last' = done(w.exc)

InitWrite ==
    /\ snippetsFile \in {Absent, dump_snippets(One("a", Snippet(<<"ls">>, <<"demo">>, 1)))}
    /\ historyFile \in {Absent, Broken("garbage"),
                        HistFile("array", <<NewEntry(1, CmdRm, GenOutput(2), 1)>>)}
    /\ configFile \in InitConfigFiles
    /\ envKey = ""
    /\ clock = 2
    /\ calls = 0
    /\ last = NoOp
    /\ project = NoProject
    /\ pre = Files
    /\ writer = Idle
    /\ disk \in {"ok", "denied", "full"}
    /\ loggers = NoLoggers

NextWrite ==
    \/ \E n \in Names, y \in BOOLEAN : SnippetSave(n, <<"pwd">>, <<>>, y)
    \/ \E f \in {ImportFile("json", "absent", "none", <<>>, <<>>),
                 ImportFile("json", "json", "object",
                            Two("a", Snippet(<<"pwd">>, <<"x">>, 1),
                                "b", Snippet(<<"du">>, <<>>, 1)), <<>>)},
          o \in BOOLEAN, y \in BOOLEAN : SnippetImport(f, o, y)
    \/ \E n \in Names : SnippetDelete(n)
    \/ SaveSnippets(One("b", Snippet(<<"pwd">>, <<>>, 1)))
    \/ LogCommand(CmdLs, GenOutput(1), 0)
    \/ \E y \in BOOLEAN : Clear(y)
    \/ ConfigSetKey("k2")
    \/ SaveLoadedConfig
    \/ LoadHistory

SpecWrite == InitWrite /\ [][NextWrite]_vars

----------------------------------------------------------------------------
(* Claims about write failures, clear and the config round trip *)

\* the messages that report success
SuccessEchoes == {"saved", "imported", "deleted", "cleared", "key_saved", "saved_as"}

\* the last operation, started on the files `pre` with its arguments, got as
\* far as its save call
ReachedWrite ==
    LET ls == load_snippets(pre.snippets, last.now)
        lh == load_history(pre.history)
        lc == load_config(pre.config)
    IN  CASE last.op = "save_snippets" -> TRUE
          [] last.op = "log_command" -> lh.exc = "none" /\ lh.top = "array"
          [] last.op = "save_config" -> lc.exc = "none"
          [] last.op = "clear" -> last.arg.confirm
          [] last.op = "config" -> lc.exc = "none" /\ lc.val.top = "object"
          [] last.op = "snippet_save" ->
                ls.exc = "none" /\ (last.arg.name \notin DOMAIN ls.map \/ last.arg.confirm)
          [] last.op = "snippet_delete" ->
                ls.exc = "none" /\ last.arg.name \in DOMAIN ls.map
          [] last.op = "snippet_import" ->
                /\ last.arg.file.kind # "absent"
                /\ read_import(last.arg.file).exc = "none"
                /\ ls.exc = "none"
                /\ \/ last.arg.overwrite
                   \/ last.arg.confirm
                   \/ DOMAIN read_import(last.arg.file).map \cap DOMAIN ls.map = {}
          [] OTHER -> FALSE

\* C14 as stated: when the write of a document fails, the storage operation
\* raises to its caller, and the command that was writing ends in an error
\* (an exception leaving the process or a non-zero exit status) and echoes no
\* success message.
C14_WriteFailuresReported ==
    (disk # "ok" /\ ReachedWrite) =>
        /\ ~last.wrote
        /\ last.echo \cap SuccessEchoes = {}
        /\ last.exc # "none" \/ last.exit # 0

\* C16: after clear_history, load_history returns the empty sequence whatever
\* the history held, and the snippet and config documents are as they were.
C16_ClearThenLoad ==
    (last.op = "clear" /\ last.wrote) =>
        /\ load_history(historyFile) = [exc |-> "none", top |-> "array", items |-> <<>>]
        /\ snippetsFile = pre.snippets
        /\ configFile = pre.config

\* a history with an entry has been cleared, next to a config document
C16_Witness ==
    /\ last.op = "clear" /\ last.wrote
    /\ load_history(pre.history).items # <<>>
    /\ configFile # Absent

----------------------------------------------------------------------------
(* rollback.show_dangerous_patterns (devkit panic --stats).  A keyword is  *)
(* named by its index in DANGEROUS_KEYWORDS; keyword_counts is the pair of *)
(* the counts (0 for a keyword that is no key of the dict) and the keys in  *)
(* the order the dict received them.                                       *)

KeywordIndexes == [j \in 1..Len(DANGEROUS_KEYWORDS) |-> j]

\* keyword in entry['command'].lower()
KeywordIn(j, entry) == Contains(lower(entry.command), DANGEROUS_KEYWORDS[j])

\* the keywords an entry counts for, as a set of indexes
KeywordsOf(entry) ==
    IF is_dangerous_command(entry.command)
    THEN {j \in 1..Len(DANGEROUS_KEYWORDS) : KeywordIn(j, entry)}
    ELSE {}

\* mutant: the inner loop stops at the first keyword found
count_entry_FirstOnly(st, hits) ==
    LET First(j) == j \in hits /\ \A i \in hits : j <= i
        New(j) == First(j) /\ st.count[j] = 0
    IN  [count |-> [j \in 1..Len(DANGEROUS_KEYWORDS) |->
                       IF First(j) THEN st.count[j] + 1 ELSE st.count[j]],
         keys |-> st.keys \o SelectSeq(KeywordIndexes, New)]

\* lines 146-149 for one entry: st is keyword_counts before, hits the
\* keywords of the entry
count_entry(st, hits) ==
    LET New(j) == j \in hits /\ st.count[j] = 0
    IN  [count |-> [j \in 1..Len(DANGEROUS_KEYWORDS) |->
                       IF j \in hits THEN st.count[j] + 1 ELSE st.count[j]],
         keys |-> st.keys \o SelectSeq(KeywordIndexes, New)]

\* the loop of lines 144-149 over items[1..n]
RECURSIVE keyword_counts(_, _)
keyword_counts(items, n) ==
    IF n = 0
    THEN [count |-> [j \in 1..Len(DANGEROUS_KEYWORDS) |-> 0], keys |-> <<>>]
    ELSE count_entry(keyword_counts(items, n - 1), KeywordsOf(items[n]))

\* sorted(keyword_counts.items(), key=lambda x: x[1], reverse=True)[:5]: the
\* sort is stable, so equal counts stay in the order of the dict
sorted_keywords(kc) ==
    LET Before(a, b) == \/ kc.count[kc.keys[a]] > kc.count[kc.keys[b]]
                        \/ kc.count[kc.keys[a]] = kc.count[kc.keys[b]] /\ a < b
        Rank(b) == Cardinality({a \in 1..Len(kc.keys) : Before(a, b)}) + 1
    IN  [r \in 1..Min(5, Len(kc.keys)) |->
            kc.keys[CHOOSE b \in 1..Len(kc.keys) : Rank(b) = r]]

\* what show_dangerous_patterns computes and echoes:
\* [exc, echo, total, dangerous, percentage, count, top]; the percentage is
\* the quotient num/den times 100, before it is formatted
\* lines 133-155 on a non-empty list of entries
statistics(total_count, dangerous_count, kc) ==
    [exc |-> "none",
     echo |-> IF kc.keys # <<>> THEN {"statistics", "most_common"} ELSE {"statistics"},
     total |-> total_count,
     dangerous |-> dangerous_count,
     percentage |-> [num |-> dangerous_count, den |-> total_count],
     count |-> kc.count,
     top |-> sorted_keywords(kc)]

show_dangerous_patterns(file) ==
    LET h == load_history(file)
        none(exc, echo) ==
            [exc |-> exc, echo |-> echo, total |-> 0, dangerous |-> 0,
             percentage |-> [num |-> 0, den |-> 1],
             count |-> [j \in 1..Len(DANGEROUS_KEYWORDS) |-> 0], top |-> <<>>]
    IN  CASE h.exc # "none" -> none(h.exc, {})
          [] ~Truthy(h) -> none("none", {"no_history"})
          [] h.top # "array" -> none("TypeError", {})            \* entry['command']
          [] \E i \in 1..Len(h.items) : ~h.items[i].wf -> none("TypeError", {})
          [] OTHER -> statistics(Len(h.items), Len(DangerousOf(h.items)),
                                 keyword_counts(h.items, Len(h.items)))

\* what the command leaves in `last`
Shown(r) ==
    Op("show_dangerous_patterns", r.exc, r.echo, IF r.exc = "none" THEN 0 ELSE 1,
       FALSE, clock, <<>>,
       [total |-> r.total, dangerous |-> r.dangerous, percentage |-> r.percentage,
        count |-> r.count, top |-> r.top])

\* devkit panic --stats
ShowDangerousPatterns ==
    /\ Step(1)
    /\ UNCHANGED <<snippetsFile, historyFile, configFile, envKey>>
    /\ last' = Shown(show_dangerous_patterns(historyFile))

StatsCommands == <<CmdLs, CmdRm, GitPushOriginMain, upper(Masterclass)>>

\* the histories of up to MaxStatsLen entries over StatsCommands
StatsHistories ==
    UNION {{[i \in 1..n |-> NewEntry(i, StatsCommands[f[i]], <<>>, 0)] :
               f \in [1..n -> 1..Len(StatsCommands)]} : n \in 0..MaxStatsLen}

InitStats ==
    /\ snippetsFile = Absent
    /\ historyFile \in {Absent, HistFile("array", <<BadElem>>)}
                           \cup {HistFile("array", h) : h \in StatsHistories}
    /\ configFile = Absent
    /\ envKey = ""
    /\ clock = MaxStatsLen + 1
    /\ calls = 0
    /\ last = NoOp
    /\ project = NoProject
    /\ pre = Files
    /\ writer = Idle
    /\ disk = "ok"
    /\ loggers = NoLoggers

NextStats ==
    \/ ShowDangerousPatterns
    \/ \E c \in {CmdLs, GitPushOriginMain} : LogCommand(c, <<>>, 0)

SpecStats == InitStats /\ [][NextStats]_vars

----------------------------------------------------------------------------
(* Claims about the danger statistics *)

\* the entries the statistics were computed from
StatsHistory == load_history(pre.history).items

StatsShown == last.op = "show_dangerous_patterns" /\ EntriesStored(pre.history)

\* the entries of StatsHistory whose lower-cased command holds keyword j
EntriesWith(j) ==
    {i \in 1..Len(StatsHistory) :
        \E p \in 1..Len(StatsHistory[i].command) :
            StandsAt(lower(StatsHistory[i].command), DANGEROUS_KEYWORDS[j], p)}

DangerousEntries == UNION {EntriesWith(j) : j \in 1..Len(DANGEROUS_KEYWORDS)}

RECURSIVE SumTo(_, _)
SumTo(f, n) == IF n = 0 THEN 0 ELSE f[n] + SumTo(f, n - 1)

C19_KeywordFrequency ==
    (StatsShown /\ StatsHistory # <<>>) =>
        /\ \A j \in 1..Len(DANGEROUS_KEYWORDS) :
              /\ last.ret.count[j] = Cardinality(EntriesWith(j))
              /\ last.ret.count[j] <= last.ret.dangerous
        /\ SumTo(last.ret.count, Len(DANGEROUS_KEYWORDS)) >= last.ret.dangerous

\* the history held "git push origin main" (push and main) twice and "ls"
C19_Witness ==
    /\ StatsShown
    /\ \E i \in 1..Len(StatsHistory) : StatsHistory[i].command = CmdLs
    /\ Cardinality({i \in 1..Len(StatsHistory) :
                       StatsHistory[i].command = GitPushOriginMain}) = 2
    /\ last.ret.count[2] = 2
    /\ last.ret.count[19] = 2
    /\ last.ret.dangerous = 2

----------------------------------------------------------------------------
(* Claim about snippet delete *)

\* the mapping load_snippets returned to the last operation
LoadedBefore == load_snippets(pre.snippets, last.now)

----------------------------------------------------------------------------
(* The AI operations called with every kind of key source and of remote    *)
(* outcome                                                                 *)

AiOperations == {"ask_command", "explain_command", "generate_commit_message",
                 "analyze_history", "suggest_rollback"}

\* one call of an operation of ai.py
AiCall(op, wf, first, second) ==
    LET key == get_api_key(envKey, configFile)
        reply == IF op = "ask_command" THEN ask_command(key, first, second)
                                       ELSE ai_operation(key, wf, first, second)
    IN  /\ Step(1)
        /\ op \in {"analyze_history", "suggest_rollback"} \/ wf
        /\ UNCHANGED <<snippetsFile, historyFile, configFile, envKey>>
        /\ last' = Op(op, "none", {}, 0, FALSE, clock,
                      [wf |-> wf, first |-> first, second |-> second], reply)

\* every combination of the texts looked for in the error, and one answer
AiAttempts ==
    {RemoteOk(<<CmdLine(<<"du">>), Plain>>)}
        \cup {RemoteErr(nf, rl, au) : nf \in BOOLEAN, rl \in BOOLEAN, au \in BOOLEAN}

\* config files that hold no key: no api_key, null, the empty string
UnkeyedConfigs ==
    {dump_config(ConfigDict({}, None, FALSE, 0)),
     dump_config(DefaultConfig),
     dump_config(ConfigDict(ConfigKeys, "", TRUE, 100))}

InitAI ==
    /\ snippetsFile \in {Absent, dump_snippets(One("a", Snippet(<<"ls">>, <<>>, 1)))}
    /\ historyFile = Absent
    /\ configFile \in {Absent, KeyedConfig, Broken("garbage"),
                       dump_config(ConfigNonDict("array"))} \cup UnkeyedConfigs
    /\ envKey \in {"", "envk"}
    /\ clock = 2
    /\ calls = 0
    /\ last = NoOp
    /\ project = NoProject
    /\ pre = Files
    /\ writer = Idle
    /\ disk = "ok"
    /\ loggers = NoLoggers

NextAI ==
    \/ \E op \in AiOperations, wf \in BOOLEAN, f \in AiAttempts :
          \E g \in SecondAttempts(f) : AiCall(op, wf, f, g)
    \/ \E f \in AiAttempts, y \in BOOLEAN :
          \E g \in SecondAttempts(f) : Ask(f, g, y, "b")

SpecAI == InitAI /\ [][NextAI]_vars

\* neither the environment nor a readable config file holds a key
NoKeyConfigured ==
    /\ envKey = ""
    /\ pre.config \in {Absent, Broken("garbage")} \cup UnkeyedConfigs

\* C21: with no API key configured every AI operation returns the "API key
\* not configured" message, sends nothing to the remote model and does not
\* raise; the ask command then exits with code 0 and leaves the snippet
\* document as it was.
C21_NoKeyNoCall ==
    NoKeyConfigured =>
        /\ last.op \in AiOperations =>
              /\ last.exc = "none"
              /\ last.ret.kind = "nokey"
              /\ last.ret.requests = 0
        /\ last.op = "ask" =>
              /\ last.exc = "none" /\ last.exit = 0
              /\ last.echo = {"nokey"}
              /\ last.ret.requests = 0
              /\ ~last.wrote /\ snippetsFile = pre.snippets

\* ask ran with the default config (api_key null) while the remote model
\* would have answered with a command
C21_Witness ==
    /\ last.op = "ask"
    /\ envKey = ""
    /\ pre.config = dump_config(DefaultConfig)
    /\ last.arg.first.ok
    /\ last.ret.kind = "nokey"

\* the last AI operation found a key, built its prompt and got no answer
\* from the remote model
RemoteFailed ==
    /\ last.op \in AiOperations
    /\ get_api_key(envKey, pre.config).exc = "none"
    /\ get_api_key(envKey, pre.config).key \notin {None, ""}
    /\ last.arg.wf
    /\ ~last.arg.first.ok
    /\ ~(last.op = "ask_command" /\ last.arg.first.nf /\ last.arg.second.ok)

----------------------------------------------------------------------------
(* log_command as several devkit processes run it on one history file: the *)
(* load of line 87 and the save of line 102 are separate steps, and        *)
(* nothing locks the file between them.  Every step advances the clock.    *)

\* mutant: the save appends to what the file holds when it is written
saved_history_Reloaded(loaded, current, entry) ==
    AppendCapped(load_history(current).items, entry)

\* lines 96-102: the list saved, from the list loaded at line 87; `current`,
\* the file at the time of the save, is not read again
saved_history(loaded, current, entry) == AppendCapped(loaded, entry)

\* history = load_history(); entry = {...}: process p enters log_command
LogLoad(p, command) ==
    LET ld == load_history(historyFile)
        exc == IF ld.exc # "none" THEN ld.exc
               ELSE IF ld.top # "array" THEN "AttributeError" ELSE "none"
        arg == [command |-> command, output |-> <<>>, exit_code |-> 0, proc |-> p]
    IN  /\ loggers[p].pc = "idle"
        /\ calls < MaxCalls
        /\ calls' = calls + 1
        /\ clock' = clock + 1
        /\ pre' = Files
        /\ loggers' = [loggers EXCEPT ![p] =
                          [pc |-> IF exc = "none" THEN "loaded" ELSE "raised",
                           history |-> ld.items,
                           entry |-> NewEntry(clock, command, <<>>, 0),
                           reads |-> 1, writes |-> 0,
                           loadedAt |-> clock, savedAt |-> 0]]
        /\ last' = IF exc = "none" THEN last
                   ELSE Op("log_command", exc, {}, 1, FALSE, clock, arg, <<>>)
        /\ UNCHANGED <<snippetsFile, historyFile, configFile, envKey, writer, disk, project>>

\* save_history(history): process p leaves log_command
LogSave(p) ==
    LET me == loggers[p]
        w == write_json(dump_history(saved_history(me.history, historyFile, me.entry)),
                        historyFile)
        arg == [command |-> me.entry.command, output |-> <<>>, exit_code |-> 0,
                proc |-> p]
    IN  /\ me.pc = "loaded"
        /\ clock' = clock + 1
        /\ historyFile' = w.file
        /\ loggers' = [loggers EXCEPT ![p] =
                          [me EXCEPT !.pc = IF w.exc = "none" THEN "returned" ELSE "raised",
                                     !.writes = me.writes + 1,
                                     !.savedAt = clock]]
        /\ last' = Op("log_command", w.exc, {}, IF w.exc = "none" THEN 0 ELSE 1,
                      w.exc = "none", me.loadedAt, arg, <<>>)
        /\ UNCHANGED <<snippetsFile, configFile, envKey, calls, pre, writer, disk, project>>

InitRace ==
    /\ snippetsFile = Absent
    /\ historyFile \in {Absent, Broken("garbage"), HistFile("object", <<>>)}
                        \cup {dump_history(GenHistory(n)) : n \in {1, HistoryCap - 1, HistoryCap}}
    /\ configFile = Absent
    /\ envKey = ""
    /\ clock = HistoryCap + 1
    /\ calls = 0
    /\ last = NoOp
    /\ project = NoProject
    /\ pre = Files
    /\ writer = Idle
    /\ disk \in {"ok", "denied", "full"}
    /\ loggers = NoLoggers

NextRace ==
    \/ \E p \in Procs, c \in {CmdLs, CmdRm} : LogLoad(p, c)
    \/ \E p \in Procs : LogSave(p)

SpecRace == InitRace /\ [][NextRace]_vars

\* the entry of process p is in the history file
Logged(p) ==
    /\ historyFile.kind = "json"
    /\ \E i \in 1..Len(historyFile.items) : historyFile.items[i] = loggers[p].entry

\* exactly the processes a and b have called log_command, and both returned
BothReturned(a, b) ==
    /\ a # b
    /\ loggers[a].pc = "returned" /\ loggers[b].pc = "returned"
    /\ \A p \in Procs \ {a, b} : loggers[p].pc = "idle"

\* C22: of two processes that both returned from log_command, the one that
\* saved last has its entry in the history; the entry of the other is there
\* when it had saved before the last one loaded (the calls ran one after the
\* other) and is lost when the last one had loaded before (last write wins).
C22_LastWriteWins ==
    \A a, b \in Procs :
        (BothReturned(a, b) /\ loggers[a].savedAt < loggers[b].savedAt) =>
            /\ Logged(b)
            /\ Logged(a) <=> loggers[a].savedAt < loggers[b].loadedAt
            /\ historyFile.items
                  = AppendCapped(loggers[b].history, loggers[b].entry)

\* both processes returned normally and the history holds one new entry only
C22_Witness ==
    \E a, b \in Procs :
        /\ BothReturned(a, b)
        /\ loggers[b].loadedAt < loggers[a].savedAt
        /\ loggers[a].savedAt < loggers[b].savedAt
        /\ pre.history = dump_history(GenHistory(1))
        /\ ~Logged(a) /\ Logged(b)
        /\ Len(historyFile.items) = 2

----------------------------------------------------------------------------
(* The reads, writes and remote requests of one invocation: log_command    *)
(* step by step on a disk that may refuse the write, and the AI operations *)

InitOnce ==
    /\ snippetsFile = Absent
    /\ historyFile \in {Absent, dump_history(GenHistory(1))}
    /\ configFile \in {Absent, KeyedConfig}
    /\ envKey = ""
    /\ clock = HistoryCap + 1
    /\ calls = 0
    /\ last = NoOp
    /\ project = NoProject
    /\ pre = Files
    /\ writer = Idle
    /\ disk \in {"ok", "denied", "full"}
    /\ loggers = NoLoggers

NextOnce ==
    \/ \E p \in Procs : LogLoad(p, CmdLs)
    \/ \E p \in Procs : LogSave(p)
    \/ \E op \in AiOperations, f \in FirstAttempts :
          \E g \in SecondAttempts(f) : AiCall(op, TRUE, f, g)

SpecOnce == InitOnce /\ [][NextOnce]_vars

\* every process read the history at most once and wrote it at most once,
\* a failed write included
OneReadOneWrite ==
    \A p \in Procs :
        /\ loggers[p].reads <= 1
        /\ loggers[p].writes <= 1
        /\ loggers[p].pc = "raised" => loggers[p].reads = 1
        /\ loggers[p].pc = "returned" => loggers[p].reads = 1 /\ loggers[p].writes = 1

\* C25 as stated: nothing is retried: a store operation reads its document
\* at most once and writes it at most once, not writing again after a failed
\* write, and an AI operation sends at most one request to the remote model.
C25_NoRetry ==
    /\ OneReadOneWrite
    /\ last.op \in AiOperations => last.ret.requests <= 1

\* C25 amended: the store operations are as stated; explain_command,
\* generate_commit_message, analyze_history and suggest_rollback send at most
\* one request; ask_command sends a second request, to the alternative model,
\* exactly when the first one failed with a not-found error, and never a
\* third.
C25_RetryOnlyInAsk ==
    /\ OneReadOneWrite
    /\ (last.op \in AiOperations /\ last.op # "ask_command") => last.ret.requests <= 1
    /\ last.op = "ask_command" =>
          /\ last.ret.requests <= 2
          /\ last.ret.requests = 2 <=>
                /\ get_api_key(envKey, pre.config).key \notin {None, ""}
                /\ ~last.arg.first.ok /\ last.arg.first.nf

\* a write of the history failed and was not repeated, and ask_command then
\* asked the alternative model
C25_Witness ==
    /\ \E p \in Procs : loggers[p].pc = "raised" /\ loggers[p].writes = 1
    /\ last.op = "ask_command"
    /\ last.ret.requests = 2
    /\ last.ret.kind = "text"

----------------------------------------------------------------------------
(* The project workspace: init_project_workspace and the init command *)

DevkitComment == "# DevKit project workspace"

\* ".devkit/" in line
HasDevkit(line) == line \in {".devkit/", "tools.devkit/"}

\* ".devkit/" not in gitignore_content, the content being "" when there is no
\* file (the text searched for holds no newline, so it lies within one line)
NotIgnored(g) == \A i \in DOMAIN g.lines : ~HasDevkit(g.lines[i])

\* open(gitignore, 'a') and f.write("\n# DevKit project workspace\n.devkit/\n"):
\* the first newline ends an unfinished last line, or else makes an empty line
append_ignore(g) ==
    IF g.open THEN Ignore(g.lines \o <<DevkitComment, ".devkit/">>, FALSE)
              ELSE Ignore(g.lines \o <<"", DevkitComment, ".devkit/">>, FALSE)

detect_project_type(p) ==
    IF p.setup THEN "python"
    ELSE IF p.git THEN "git-repo"
    ELSE "unknown"

\* the config written to .devkit/config.json
ProjectConfig(type, at) == [exists |-> TRUE, project_type |-> type, initialized_at |-> at]

\* mutant: the .gitignore lines are appended on every initialization
init_project_workspace_Appending(p, force, now) ==
    IF p.devkit /\ ~force
    THEN [exc |-> "FileExistsError", ret |-> <<>>, project |-> p]
    ELSE LET config == ProjectConfig(detect_project_type(p), now)
         IN  [exc |-> "none", ret |-> config,
              project |->
                 [p EXCEPT !.devkit = TRUE,
                           !.config = config,
                           !.snippets = IF @ = "absent" THEN "{}" ELSE @,
                           !.gitignore = IF p.git THEN append_ignore(@) ELSE @]]

\* init_project_workspace(project_root, force): [exc, ret, project]
init_project_workspace(p, force, now) ==
    IF p.devkit /\ ~force
    THEN [exc |-> "FileExistsError", ret |-> <<>>, project |-> p]
    ELSE LET config == ProjectConfig(detect_project_type(p), now)
         IN  [exc |-> "none", ret |-> config,
              project |->
                 [p EXCEPT !.devkit = TRUE,
                           !.config = config,
                           !.snippets = IF @ = "absent" THEN "{}" ELSE @,
                           !.gitignore = IF p.git /\ NotIgnored(@)
                                         THEN append_ignore(@) ELSE @]]

\* the bookkeeping of an operation on the project root
ProjectStep ==
    /\ calls < MaxCalls
    /\ calls' = calls + 1
    /\ clock' = clock + 1
    /\ pre' = Files
    /\ UNCHANGED <<snippetsFile, historyFile, configFile, envKey, writer, disk, loggers>>

InitProjectWorkspace(force) ==
    LET r == init_project_workspace(project, force, clock)
    IN  /\ ProjectStep
        /\ project' = r.project
        /\ last' = Op("init_project_workspace", r.exc, {}, 0, r.exc = "none", clock,
                      [force |-> force], r.ret)

\* devkit init [--force]: find_project_root falls back to the current
\* directory with a warning when it holds no marker
InitCommand(force) ==
    LET r == init_project_workspace(project, force, clock)
        warned == IF project.git \/ project.setup \/ project.devkit
                  THEN {} ELSE {"no_markers"}
    IN  /\ ProjectStep
        /\ project' = r.project
        /\ last' = Op("devkit init", "none",
                      warned \cup (IF r.exc = "none" THEN {"initialized"}
                                                     ELSE {"exists", "use_force"}),
                      0, r.exc = "none", clock, [force |-> force], r.ret)

IgnoreFiles ==
    {NoIgnore, Ignore(<<>>, FALSE),
     Ignore(<<"node_modules/">>, FALSE), Ignore(<<"node_modules/">>, TRUE),
     Ignore(<<".devkit">>, TRUE), Ignore(<<".devkit/">>, FALSE),
     Ignore(<<"dist/", "tools.devkit/">>, TRUE)}

InitProject ==
    /\ snippetsFile = Absent
    /\ historyFile = Absent
    /\ configFile = Absent
    /\ envKey = ""
    /\ clock = 1
    /\ calls = 0
    /\ last = NoOp
    /\ writer = Idle
    /\ disk = "ok"
    /\ loggers = NoLoggers
    /\ project \in
          {Project(g, s, FALSE, NoProjectConfig, "absent", i) :
              g \in BOOLEAN, s \in BOOLEAN, i \in IgnoreFiles}
          \cup
          {Project(g, s, TRUE, c, n, i) :
              g \in BOOLEAN, s \in BOOLEAN,
              c \in {NoProjectConfig, ProjectConfig("unknown", 0)},
              n \in {"absent", "{}", "stored"}, i \in IgnoreFiles}
    /\ pre = Files

NextProject ==
    \/ \E force \in BOOLEAN : InitProjectWorkspace(force)
    \/ \E force \in BOOLEAN : InitCommand(force)

SpecProject == InitProject /\ [][NextProject]_vars

\* the number of lines of .gitignore equal to the given one
IgnoreLines(g, line) == Cardinality({i \in DOMAIN g.lines : g.lines[i] = line})

\* the last operation was an initialization that met an existing .devkit
\* directory and was refused
Refused ==
    \/ last.op = "init_project_workspace" /\ last.exc = "FileExistsError"
    \/ last.op = "devkit init" /\ "exists" \in last.echo

\* C23: an initialization of a root that already holds .devkit is refused when
\* force is false (FileExistsError, which the command reports) and then leaves
\* the project config, the project snippets file and .gitignore as they were;
\* every other initialization writes the project config anew, keeps a project
\* snippets file that exists and creates an empty one otherwise; and
\* .gitignore never holds the .devkit/ line or its comment more than once.
C23_InitWorkspace ==
    /\ last.op \in {"init_project_workspace", "devkit init"} =>
          IF pre.project.devkit /\ ~last.arg.force
          THEN /\ Refused
               /\ Files = pre
          ELSE /\ ~Refused
               /\ project.devkit
               /\ project.config =
                     ProjectConfig(detect_project_type(pre.project), last.now)
               /\ project.snippets = IF pre.project.snippets = "absent"
                                     THEN "{}" ELSE pre.project.snippets
    /\ IgnoreLines(project.gitignore, ".devkit/") <= 1
    /\ IgnoreLines(project.gitignore, DevkitComment) <= 1

\* a forced initialization rewrote the config of an existing workspace, kept
\* its snippets file and added the .gitignore lines; the next one, not forced,
\* raised FileExistsError and changed nothing
C23_Witness ==
    /\ calls = 2
    /\ last.op = "init_project_workspace"
    /\ last.exc = "FileExistsError"
    /\ project = pre.project
    /\ project.config.initialized_at = 1
    /\ project.snippets = "stored"
    /\ IgnoreLines(project.gitignore, ".devkit/") = 1
    /\ IgnoreLines(project.gitignore, DevkitComment) = 1

----------------------------------------------------------------------------
(* devkit snippet run NAME *)

\* mutant: the name of the snippet is taken for its command
RunCommand_Name(map, name) == <<name>>

\* data = snippets[name]; command = data.get('command', '')
RunCommand(map, name) == map[name].command

\* output and exit_code are what subprocess.run gives back: stdout + stderr
\* and the return code. The command runs between clock and clock + 1, and
\* log_command reads the time after it.
SnippetRun(name, output, exit_code) ==
    LET sn == load_snippets(snippetsFile, clock)
        hi == load_history(historyFile)
        done(exc, echo, ran, command) ==
            Op("snippet_run", exc, echo, IF exc = "none" THEN 0 ELSE 1,
               ran /\ exc = "none", clock,
               [name |-> name, output |-> output, exit_code |-> exit_code,
                ran |-> ran, command |-> command],
               <<>>)
    IN  /\ Step(2)
        /\ UNCHANGED <<snippetsFile, configFile, envKey>>
        /\ IF sn.exc # "none"
           THEN /\ last' = done(sn.exc, {}, FALSE, <<>>)
                /\ UNCHANGED historyFile
           ELSE IF name \notin DOMAIN sn.map
           THEN /\ last' = done("none", {"not_found"}, FALSE, <<>>)
                /\ UNCHANGED historyFile
           ELSE LET command == RunCommand(sn.map, name)
                    entry == NewEntry(clock + 1, command, output, exit_code)
                    w == write_json(dump_history(AppendCapped(hi.items, entry)),
                                    historyFile)
                    result == IF exit_code # 0 THEN "failed" ELSE "completed"
                IN  IF hi.exc # "none"
                    THEN /\ last' = done(hi.exc, {"running"}, TRUE, command)
                         /\ UNCHANGED historyFile
                    ELSE IF hi.top # "array"
                    THEN /\ last' = done("AttributeError", {"running"}, TRUE, command)
                         /\ UNCHANGED historyFile
                    ELSE /\ historyFile' = w.file
                         /\ last' = done(w.exc,
                                         IF w.exc = "none" THEN {"running", result}
                                                           ELSE {"running"},
                                         TRUE, command)

InitRun ==
    /\ snippetsFile \in {Absent} \cup {dump_snippets(m) : m \in StoredMaps}
    /\ historyFile \in {Absent, Broken("garbage")}
                        \cup {dump_history(GenHistory(n)) : n \in {1, HistoryCap - 1, HistoryCap}}
    /\ configFile = Absent
    /\ envKey = ""
    /\ clock = HistoryCap + 1
    /\ calls = 0
    /\ last = NoOp
    /\ project = NoProject
    /\ pre = Files
    /\ writer = Idle
    /\ disk = "ok"
    /\ loggers = NoLoggers

NextRun ==
    \E n \in Names, o \in OutputLens, e \in ExitCodes : SnippetRun(n, GenOutput(o), e)

SpecRun == InitRun /\ [][NextRun]_vars

\* the snippets snippet_run loaded, and the history its log_command loaded
RunSnippets == load_snippets(pre.snippets, last.now).map

RunHistory == load_history(pre.history).items

\* the entry snippet_run logs when the stored output is out
RunEntry(out) ==
    [wf |-> TRUE,
     timestamp |-> last.now + 1,
     command |-> RunSnippets[last.arg.name].command,
     output |-> out,
     exit_code |-> last.arg.exit_code]

\* snippet_run appended the entry whose output is out, or it did not know the
\* name, ran nothing and left the history; the snippet document is as it was
RunLogged(out) ==
    last.op = "snippet_run" =>
        /\ snippetsFile = pre.snippets
        /\ IF last.arg.name \in DOMAIN RunSnippets
           THEN /\ last.arg.ran
                /\ historyFile.kind = "json"
                /\ historyFile.items = AppendCapped(RunHistory, RunEntry(out))
                /\ RunEntry(out).timestamp > last.now
           ELSE /\ ~last.arg.ran
                /\ historyFile = pre.history

\* C26 as stated: snippet run on a stored name appends exactly one entry,
\* built after the command finished, holding the snippet's command, the
\* whole of stdout + stderr and the exit code; on an unknown name it runs
\* nothing and leaves the history; the snippet document is unchanged.
C26_RunLogsWholeOutput == RunLogged(last.arg.output)

\* C26 amended: the same, the entry holding the first 1000 characters of
\* stdout + stderr.
C26_RunLogsOnce == RunLogged(SliceHead(last.arg.output, OutputCap))

\* a failed command with more output than the cap was run from a snippet
\* while the history was full
C26_Witness ==
    /\ last.op = "snippet_run"
    /\ last.arg.ran
    /\ last.arg.exit_code = 1
    /\ Len(last.arg.output) > OutputCap
    /\ Len(RunHistory) = HistoryCap
    /\ Len(historyFile.items) = HistoryCap
    /\ historyFile.items[HistoryCap].command = <<"ls">>
    /\ Len(historyFile.items[HistoryCap].output) = OutputCap

----------------------------------------------------------------------------
(* The stored configuration and the logging *)

\* devkit config, without --api-key: what it shows of the logging settings
ConfigShow ==
    LET c == load_config(configFile)
        enabled == IF "time_travel_enabled" \in c.val.keys   \* .get(..., True)
                   THEN c.val.time_travel_enabled ELSE TRUE
        max == IF "max_history" \in c.val.keys               \* .get(..., 100)
               THEN c.val.max_history ELSE 100
        done(exc, echo, ret) ==
            Op("config", exc, echo, IF exc = "none" THEN 0 ELSE 1, FALSE, clock,
               [api_key |-> None], ret)
    IN  /\ Step(1)
        /\ UNCHANGED <<snippetsFile, historyFile, configFile, envKey>>
        /\ last' = IF c.exc # "none" THEN done(c.exc, {}, <<>>)
                   ELSE IF c.val.top # "object"              \* config_data.get
                   THEN done("AttributeError", {}, <<>>)
                   ELSE done("none",
                             {IF enabled THEN "logging_enabled" ELSE "logging_disabled"},
                             [max_history |-> max])

StoredConfigs ==
    {Absent, Broken("garbage"),
     dump_config(ConfigDict(ConfigKeys, None, FALSE, 1)),
     dump_config(ConfigDict(ConfigKeys, "k", TRUE, 250)),
     dump_config(ConfigDict(ConfigKeys, "k", FALSE, 100)),
     dump_config(ConfigDict({"api_key"}, "k", TRUE, 100))}

InitGoverned ==
    /\ snippetsFile = Absent
    /\ historyFile \in {Absent} \cup
          {dump_history(GenHistory(n)) : n \in {1, HistoryCap - 1, HistoryCap}}
    /\ configFile \in StoredConfigs
    /\ envKey = ""
    /\ clock = HistoryCap + 1
    /\ calls = 0
    /\ last = NoOp
    /\ project = NoProject
    /\ pre = Files
    /\ writer = Idle
    /\ disk = "ok"
    /\ loggers = NoLoggers

NextGoverned ==
    \/ \E c \in {CmdLs, CmdRm}, e \in ExitCodes : LogCommand(c, GenOutput(1), e)
    \/ ConfigShow

SpecGoverned == InitGoverned /\ [][NextGoverned]_vars

\* the stored config turns the logging off and asks for a history of one entry
LoggingOff(file) ==
    /\ file.kind = "json"
    /\ "time_travel_enabled" \in file.keys /\ ~file.time_travel_enabled
    /\ "max_history" \in file.keys /\ file.max_history = 1

\* C27: whatever the stored config holds, time_travel_enabled = false and any
\* max_history included, log_command appends its entry and keeps the last 100
\* entries; it does not touch the config.
C27_ConfigDoesNotGovern ==
    last.op = "log_command" =>
        LET before == load_history(pre.history).items
            entry == NewEntry(last.now, last.arg.command, last.arg.output,
                              last.arg.exit_code)
        IN  /\ last.exc = "none"
            /\ historyFile.items = SliceTail(Append(before, entry), HistoryCap)
            /\ Len(historyFile.items) = Min(Len(before) + 1, HistoryCap)
            /\ configFile = pre.config

\* with the logging turned off and max_history = 1 in the stored config, a
\* full history took one more entry and still holds 100
C27_Witness ==
    /\ last.op = "log_command"
    /\ LoggingOff(configFile)
    /\ Len(load_history(pre.history).items) = HistoryCap
    /\ Len(historyFile.items) = HistoryCap
    /\ historyFile.items[HistoryCap].timestamp = last.now
    /\ historyFile.items[1] = load_history(pre.history).items[2]

----------------------------------------------------------------------------
(* Claims about overwriting a stored snippet *)

\* the mapping snippet_save loaded (it reads the time again for the record)
SaveLoaded == load_snippets(pre.snippets, last.now - 1)

Imported == read_import(last.arg.file)

----------------------------------------------------------------------------
(* logs.truncate_log *)

\* A log is the sequence log_content.split('\n') gives, a line standing for
\* its text: line i of the logs used here is the number i, and the marker
\* '... (truncated) ...' is 0. Joining the kept lines with '\n' gives the text
\* whose lines they are.
TruncatedMarker == 0

GenLog(n) == [i \in 1..n |-> i]

\* mutant: lines[-401:] in place of lines[-400:]
truncate_log_LongTail(lines, max_lines) ==
    IF Len(lines) <= max_lines
    THEN [lines |-> lines, truncated |-> FALSE]
    ELSE [lines |-> SliceHead(lines, HeadLines) \o <<TruncatedMarker>>
                       \o SliceTail(lines, TailLines + 1),
          truncated |-> TRUE]

\* truncate_log(log_content, max_lines): [lines, truncated]
truncate_log(lines, max_lines) ==
    IF Len(lines) <= max_lines
    THEN [lines |-> lines, truncated |-> FALSE]
    ELSE [lines |-> SliceHead(lines, HeadLines) \o <<TruncatedMarker>>
                       \o SliceTail(lines, TailLines),
          truncated |-> TRUE]

\* truncate_log(log_content) as analyze_log_with_ai calls it, on a log of n lines
TruncateLog(n) ==
    /\ Step(1)
    /\ UNCHANGED <<snippetsFile, historyFile, configFile, envKey>>
    /\ last' = Op("truncate_log", "none", {}, 0, FALSE, clock,
                  [lines |-> GenLog(n), max_lines |-> MaxLines],
                  truncate_log(GenLog(n), MaxLines))

\* a text always splits into at least one line
LogLens == (1..3) \cup {HeadLines - 1, HeadLines, HeadLines + 1,
                        TailLines - 1, TailLines, TailLines + 1}
              \cup ((MaxLines - LogOver)..(MaxLines + LogOver))

InitLogs ==
    /\ snippetsFile = Absent
    /\ historyFile = Absent
    /\ configFile = Absent
    /\ envKey = ""
    /\ clock = 1
    /\ calls = 0
    /\ last = NoOp
    /\ project = NoProject
    /\ pre = Files
    /\ writer = Idle
    /\ disk = "ok"
    /\ loggers = NoLoggers

NextLogs == \E n \in LogLens : TruncateLog(n)

SpecLogs == InitLogs /\ [][NextLogs]_vars

\* C30: a log of at most 500 lines is returned as it is with the flag false;
\* a longer one is returned as its first 100 lines, the marker line and its
\* last 400 lines, in that order, with the flag true; the result has at most
\* 501 lines, and the first kept line of the tail lies after the last kept
\* line of the head.
C30_TruncateLog ==
    last.op = "truncate_log" =>
        LET in == last.arg.lines
            out == last.ret.lines
            n == Len(in)
        IN  /\ Len(out) <= 501
            /\ IF n <= 500
               THEN out = in /\ ~last.ret.truncated
               ELSE /\ last.ret.truncated
                    /\ Len(out) = 501
                    /\ \A i \in 1..100 : out[i] = in[i]
                    /\ out[101] = TruncatedMarker
                    /\ \A j \in 1..400 : out[101 + j] = in[n - 400 + j]
                    /\ n - 400 + 1 > 100

\* a log of 501 lines lost its line 101 alone
C30_Witness ==
    /\ last.op = "truncate_log"
    /\ Len(last.arg.lines) = 501
    /\ last.ret.truncated
    /\ Len(last.ret.lines) = 501
    /\ last.ret.lines[100] = 100
    /\ last.ret.lines[101] = TruncatedMarker
    /\ last.ret.lines[102] = 102
    /\ last.ret.lines[501] = 501

====
